---- MODULE Spec2Model ----
(***************************************************************************)
(* Metaheuristic framework of s3-2023 (src/src/api): the sampling utility, *)
(* the construction algorithms (greedy, beam search, GRASP, Ant System,    *)
(* MMAS) and the local-search family (best improvement, first             *)
(* improvement, rls, ILS, sa), each as a state machine over an abstract    *)
(* problem drawn from a small family; and the Problem and Solution classes *)
(* of src/src/3dprinting.py.                                               *)
(*                                                                         *)
(* One set of variables is shared by all algorithms; `alg' names the entry *)
(* point that is running and `pc' its position.  Every algorithm has its   *)
(* own specification (SpecLcg, SpecMmas, ...).                             *)
(*                                                                         *)
(* Optional values (Python's Optional[T]) are sequences of length <= 1:    *)
(* None is <<>> and a defined value v is <<v>>.                            *)
(* The wall clock is a monotonic flag `expired': every clock check of the  *)
(* code may find the budget expired, and once expired it stays expired    *)
(* until the call returns.  A budget that never expires (`budget' is       *)
(* "never") leaves the flag FALSE.                                         *)
(***************************************************************************)
EXTENDS Integers, Sequences, FiniteSets

VARIABLES
    alg,        \* entry point being executed
    pc,         \* position inside the entry point
    err,        \* exception raised to the caller ("" when none)
    expired,    \* a clock check has seen perf_counter() - start >= budget
    n, m, c, x, cnt, out,  \* non_repeating_lcg: arguments, locals, yielded values
    prob,       \* the problem instance behind the Solution objects (read-only)
    start,      \* the solution passed to the entry point
    gsol,       \* greedy_construction: the solution it works on in place
    sol,        \* the solution the entry point is working on
    best,       \* best solution so far (None or a solution)
    bestobj,    \* objective of best (None or a number)
    iter,       \* number of iterations of the outer loop started so far
    bw,         \* beam_search: the beam width
    beam,       \* beam_search: v, the list of (lb, solution) pairs
    seen,       \* beam_search: every solution that was in v so far, in order (history)
    alphaNum,   \* grasp: alpha, counted in halves
    ls,         \* grasp, ant_system, mmas: the kind of local_search argument
    b,          \* grasp: incumbent of the repetition (None or a solution)
    bobj,       \* grasp: objective of b (None or a number)
    a,          \* mmas: the ratio taumax / taumin
    nrestart,   \* mmas: stagnation limit
    tau,        \* ant_system, mmas: the trail table (the keys materialised so far)
    tau0,       \* ant_system, mmas: the default trail of a key not in the table
    taumax,     \* mmas: upper trail limit
    taumin,     \* mmas: lower trail limit
    ni,         \* mmas: stagnation counter
    ants,       \* ant_system, mmas: the list ants of the current iteration
    antIdx,     \* ant_system, mmas: position of the loop over solutions
    nants,      \* ant_system, mmas: len(solutions)
    improved,   \* mmas: per iteration started, whether it replaced best (history)
    observed,   \* ant_system, mmas: objectives of the feasible ants seen so far (history)
    reinforced, \* ant_system, mmas: the identities a reinforcement has touched (history)
    land,       \* local search: the landscape behind the Solution objects (read-only)
    arg,        \* local search: the solution passed to the first call
    work,       \* local search: the solution the call works on in place
    scan,       \* local search: the local moves the current scan has yet to yield
    bestIncr,   \* best_improvement: best_incr
    bestMove,   \* best_improvement: best_move (None or a move)
    kick,       \* ils: the kick strength ks
    steps,      \* local search: number of steps the current call has applied
    rets,       \* local search: what the calls made so far returned, and how
    inst,       \* 3dprinting: the lists the Problem was constructed from
    pprob,      \* 3dprinting: the attributes of the Problem object
    psol,       \* 3dprinting: the attributes of the Solution object
    clist,      \* grasp, float increments: C, the list of (increment, component) pairs
    alpha,      \* grasp, float increments: alpha
    rcl,        \* grasp, float increments: RCL
    choice,     \* grasp, float increments: c, the component added (None so far)
    budget,     \* local search: "finite", or "never" for a budget that never expires
    move,       \* sa: the move the scan has just yielded (None outside the loop body)
    initTemp,   \* sa: init_temp
    visited     \* local search: the solutions the call has worked on, in order (history)

ctlVars == <<alg, pc, err, expired>>
lcgVars == <<n, m, c, x, cnt, out>>
probVars == <<prob, start, gsol>>
workVars == <<sol, best, bestobj, iter>>
beamVars == <<bw, beam, seen>>
graspVars == <<alphaNum, ls, b, bobj>>
mmasVars == <<a, nrestart, tau, tau0, taumax, taumin, ni, ants, antIdx, nants,
              improved, observed, reinforced>>
lsVars == <<land, arg, work, scan, bestIncr, bestMove, kick, steps, rets>>
printVars == <<inst, pprob, psol>>
selVars == <<clist, alpha, rcl, choice>>
descVars == <<budget, move, initTemp, visited>>
vars == <<alg, pc, err, expired, n, m, c, x, cnt, out, prob, start, gsol,
          sol, best, bestobj, iter, bw, beam, seen, alphaNum, ls, b, bobj,
          a, nrestart, tau, tau0, taumax, taumin, ni, ants, antIdx, nants,
          improved, observed, reinforced,
          land, arg, work, scan, bestIncr, bestMove, kick, steps, rets,
          inst, pprob, psol, clist, alpha, rcl, choice,
          budget, move, initTemp, visited>>

\* values of the variables an entry point does not use
IdleLcg == n = 0 /\ m = 0 /\ c = 0 /\ x = 0 /\ cnt = 0 /\ out = <<>>
IdleProb == prob = <<>> /\ start = <<>> /\ gsol = <<>>
IdleWork == sol = <<>> /\ best = <<>> /\ bestobj = <<>> /\ iter = 0
IdleBeam == bw = 0 /\ beam = <<>> /\ seen = <<>>
IdleGrasp == alphaNum = 0 /\ ls = "" /\ b = <<>> /\ bobj = <<>>
IdleMmas ==
    /\ a = 0 /\ nrestart = 0 /\ tau = <<>> /\ tau0 = <<>> /\ taumax = <<>>
    /\ taumin = <<>> /\ ni = 0 /\ ants = <<>> /\ antIdx = 0 /\ nants = 0
    /\ improved = <<>> /\ observed = {} /\ reinforced = {}
IdleLs ==
    /\ land = <<>> /\ arg = 0 /\ work = 0 /\ scan = <<>> /\ bestIncr = 0
    /\ bestMove = <<>> /\ kick = 0 /\ steps = 0 /\ rets = <<>>
IdlePrinting == inst = <<>> /\ pprob = <<>> /\ psol = <<>>
IdleSel == clist = <<>> /\ alpha = <<>> /\ rcl = <<>> /\ choice = <<>>
IdleDesc == budget = "" /\ move = <<>> /\ initTemp = 0 /\ visited = <<>>

----------------------------------------------------------------------------
(* Optional values *)

None == <<>>
Some(v) == <<v>>
IsNone(o) == o = <<>>
Val(o) == o[1]

Range(s) == {s[i] : i \in 1..Len(s)}
Abs(v) == IF v < 0 THEN -v ELSE v
Max2(u, w) == IF u >= w THEN u ELSE w
Min2(u, w) == IF u <= w THEN u ELSE w

----------------------------------------------------------------------------
(* utils.non_repeating_lcg *)

\* largest n the sampling utility is called with
MaxN == 8

\* multiplier of the generator
LcgA == 5

RECURSIVE Pow2(_)
Pow2(k) == IF k = 0 THEN 1 ELSE 2 * Pow2(k - 1)

\* ceil(log2(v)) for v >= 1: the least k with 2^k >= v (math.log2 is exact
\* enough for that on every v below 2^49)
RECURSIVE CeilLog2From(_, _)
CeilLog2From(v, k) == IF Pow2(k) >= v THEN k ELSE CeilLog2From(v, k + 1)
CeilLog2(v) == CeilLog2From(v, 0)

\* m = 1 << ceil(log2(n))
LcgModulus(v) == Pow2(CeilLog2(v))

\* x = (a * x + c) % m with a multiplier that has no full period
LcgNextBadMultiplier(xx, cc, mm) == ((LcgA - 1) * xx + cc) % mm

\* x = (a * x + c) % m
LcgNext(xx, cc, mm) == (LcgA * xx + cc) % mm

\* c = random.randrange(1, m, 2)
LcgIncrements(mm) == {v \in 1..(mm - 1) : v % 2 = 1}

\* x = random.randrange(m)
LcgStarts(mm) == 0..(mm - 1)

\* the variables of the other entry points, unused by the generator
otherThanLcg == <<probVars, workVars, beamVars, graspVars, mmasVars, lsVars, printVars, selVars, descVars>>

InitLcg ==
    /\ alg = "lcg"
    /\ IdleProb /\ IdleWork /\ IdleBeam /\ IdleGrasp /\ IdleMmas /\ IdleLs /\ IdlePrinting /\ IdleSel /\ IdleDesc
    /\ err = ""
    /\ expired = FALSE
    /\ n \in 0..MaxN
    /\ out = <<>>
    /\ cnt = 0
    /\ IF n > 0
       THEN /\ m = LcgModulus(n)
            /\ IF m > 1
               THEN /\ c \in LcgIncrements(m)
                    /\ x \in LcgStarts(m)
                    /\ pc = "lcg_loop"
               ELSE /\ c = 0
                    /\ x = 0
                    /\ pc = "lcg_one"
       ELSE /\ m = 0
            /\ c = 0
            /\ x = 0
            /\ pc = "done"

\* the generator is running, called directly or through sample2
LcgRunning == alg \in {"lcg", "random_local_moves_wor"}

\* one iteration of `for _ in range(m)'
LcgStep ==
    /\ LcgRunning
    /\ pc = "lcg_loop"
    /\ cnt < m
    /\ out' = IF x < n THEN Append(out, x) ELSE out
    /\ x' = LcgNext(x, c, m)
    /\ cnt' = cnt + 1
    /\ UNCHANGED <<alg, pc, err, expired, n, m, c>>
    /\ UNCHANGED otherThanLcg

\* range(m) is exhausted: the generator returns
LcgExhausted ==
    /\ LcgRunning
    /\ pc = "lcg_loop"
    /\ cnt = m
    /\ pc' = "done"
    /\ UNCHANGED <<alg, err, expired, n, m, c, x, cnt, out>>
    /\ UNCHANGED otherThanLcg

\* the branch m = 1: yield 0
LcgYieldZero ==
    /\ LcgRunning
    /\ pc = "lcg_one"
    /\ out' = Append(out, 0)
    /\ pc' = "done"
    /\ UNCHANGED <<alg, err, expired, n, m, c, x, cnt>>
    /\ UNCHANGED otherThanLcg

NextLcg == LcgStep \/ LcgExhausted \/ LcgYieldZero

SpecLcg == InitLcg /\ [][NextLcg]_vars

----------------------------------------------------------------------------
(* The Solution/Problem contract the construction algorithms are written   *)
(* against.  A problem has components 1..n; a solution is the sequence of  *)
(* components added so far (its path).                                     *)

\* largest number of components of a problem given to greedy_construction and
\* beam_search
MaxComp == 3
\* largest number of components of a problem given to a randomized construction
MaxRandComp == 2
\* the lower-bound increments a component may have
IncrValues == {0, 1, 2}
\* the costs a component may have
CostValues == {-1, 0, 1}

\* Problems with nn components: incr[k] is lower_bound_incr_add of component
\* k (None when undefined), cost[k] its objective cost per position, and a
\* solution is feasible once it holds feasLen components (never, when
\* feasLen = nn + 1); a solution holding cap components has no add move.
ProblemsOfSize(nn, incrs, costs) ==
    [n : {nn}, incr : [1..nn -> incrs], cost : [1..nn -> costs],
     feasLen : 0..(nn + 1), cap : {nn}]

Problems(maxn, incrs, costs) ==
    UNION {ProblemsOfSize(nn, incrs, costs) : nn \in 0..maxn}

DefinedIncrs == {Some(v) : v \in IncrValues}
OptionalIncrs == DefinedIncrs \cup {None}

\* the problems of the deterministic constructions: costs that do not decrease
\* with the component number
DeterministicProblems ==
    {q \in Problems(MaxComp, OptionalIncrs, CostValues) :
        \A k \in 1..(q.n - 1) : q.cost[k] <= q.cost[k + 1]}

\* Solution.is_feasible
IsFeasible(p) == Len(p) >= prob.feasLen

RECURSIVE PathCost(_, _)
PathCost(p, i) == IF i > Len(p) THEN 0 ELSE i * prob.cost[p[i]] + PathCost(p, i + 1)

\* Solution.objective: defined only when feasible
Objective(p) == IF IsFeasible(p) THEN Some(PathCost(p, 1)) ELSE None

\* Solution.add_moves: the components not yet added, in enumeration order
RECURSIVE AddMovesFrom(_, _)
AddMovesFrom(used, k) ==
    IF k > prob.n THEN <<>>
    ELSE IF k \in used THEN AddMovesFrom(used, k + 1)
         ELSE <<k>> \o AddMovesFrom(used, k + 1)
AddMoves(p) == IF Len(p) >= prob.cap THEN <<>> ELSE AddMovesFrom(Range(p), 1)

\* lower_bound_incr_add with 0 standing for an undefined increment
LowerBoundIncrAddOrZero(p, k) == IF IsNone(prob.incr[k]) THEN Some(0) ELSE prob.incr[k]

\* Solution.lower_bound_incr_add
LowerBoundIncrAdd(p, k) == prob.incr[k]

\* Solution.lower_bound: the increments of the components added so far
RECURSIVE LowerBoundFrom(_, _)
LowerBoundFrom(p, i) ==
    IF i > Len(p) THEN 0
    ELSE (IF IsNone(prob.incr[p[i]]) THEN 0 ELSE Val(prob.incr[p[i]])) + LowerBoundFrom(p, i + 1)
LowerBound(p) == LowerBoundFrom(p, 1)

\* Solution.add
Add(p, k) == Append(p, k)

----------------------------------------------------------------------------
(* greedy_construction *)

\* min(filter(defined, map(increment, add_moves)), key = increment): the
\* first component of the enumeration whose defined increment is minimal
RECURSIVE GreedyMin(_, _, _)
GreedyMin(p, moves, cur) ==
    IF moves = <<>> THEN cur
    ELSE LET k == Head(moves)
             inc == LowerBoundIncrAdd(p, k)
         IN IF IsNone(inc) THEN GreedyMin(p, Tail(moves), cur)
            ELSE IF IsNone(cur) \/ Val(inc) < Val(LowerBoundIncrAdd(p, Val(cur)))
                 THEN GreedyMin(p, Tail(moves), Some(k))
                 ELSE GreedyMin(p, Tail(moves), cur)

\* the first addable component, whatever its increment
GreedyBestFirstMove(p) == IF AddMoves(p) = <<>> THEN None ELSE Some(Head(AddMoves(p)))

GreedyBest(p) == GreedyMin(p, AddMoves(p), None)

\* one iteration of the loop of greedy_construction on gsol; `after' is the
\* position reached when the loop breaks
GreedyIteration(after) ==
    /\ pc = "greedy_loop"
    /\ LET pick == GreedyBest(gsol)
       IN IF IsNone(pick)
          THEN /\ pc' = after
               /\ gsol' = gsol
          ELSE /\ gsol' = Add(gsol, Val(pick))
               /\ pc' = pc

----------------------------------------------------------------------------
(* beam_search *)

\* largest beam width
MaxWidth == 2

\* bisect.bisect_right(lst, v): the binary search of the standard library
\* (0-based insertion point), whatever the order of lst
RECURSIVE BisectRight(_, _, _, _)
BisectRight(lst, v, lo, hi) ==
    IF lo < hi
    THEN LET mid == (lo + hi) \div 2
         IN IF v < lst[mid + 1] THEN BisectRight(lst, v, lo, mid)
            ELSE BisectRight(lst, v, mid + 1, hi)
    ELSE lo

\* list.insert(i, v) followed by list.pop()
InsertPop(lst, i, v) ==
    LET ins == SubSeq(lst, 1, i) \o <<v>> \o SubSeq(lst, i + 1, Len(lst))
    IN SubSeq(ins, 1, Len(ins) - 1)

\* KMin.__init__
KMinEmpty == [keys |-> <<>>, values |-> <<>>]

\* KMin.insert with the comparison against the last key reversed
KMinInsertReversed(km, k, value) ==
    IF Len(km.values) = k
    THEN IF value.lb > km.keys[Len(km.keys)]
         THEN LET i == BisectRight(km.keys, value.lb, 0, Len(km.keys))
              IN [keys |-> InsertPop(km.keys, i, value.lb),
                  values |-> InsertPop(km.values, i, value)]
         ELSE km
    ELSE [keys |-> Append(km.keys, value.lb), values |-> Append(km.values, value)]

\* KMin.insert, the key of a value being its first field (itemgetter(0))
KMinInsert(km, k, value) ==
    IF Len(km.values) = k
    THEN IF value.lb < km.keys[Len(km.keys)]
         THEN LET i == BisectRight(km.keys, value.lb, 0, Len(km.keys))
              IN [keys |-> InsertPop(km.keys, i, value.lb),
                  values |-> InsertPop(km.values, i, value)]
         ELSE km
    ELSE [keys |-> Append(km.keys, value.lb), values |-> Append(km.values, value)]

\* the pairs (solution, component) candidates() enumerates, in encounter order
RECURSIVE MovesOf(_, _)
MovesOf(e, moves) ==
    IF moves = <<>> THEN <<>>
    ELSE <<[e |-> e, c |-> Head(moves)]>> \o MovesOf(e, Tail(moves))

RECURSIVE Expansions(_)
Expansions(prev) ==
    IF prev = <<>> THEN <<>>
    ELSE MovesOf(Head(prev), AddMoves(Head(prev).s)) \o Expansions(Tail(prev))

\* lb + s.lower_bound_incr_add(c) is a TypeError when the increment is None
ExpansionRaises(prev) ==
    \E i \in 1..Len(Expansions(prev)) :
        LET ex == Expansions(prev)[i] IN IsNone(LowerBoundIncrAdd(ex.e.s, ex.c))

RECURSIVE InsertAll(_, _, _)
InsertAll(km, k, exs) ==
    IF exs = <<>> THEN km
    ELSE LET ex == Head(exs)
             value == [lb |-> ex.e.lb + Val(LowerBoundIncrAdd(ex.e.s, ex.c)),
                       s |-> ex.e.s, c |-> ex.c]
         IN InsertAll(KMinInsert(km, k, value), k, Tail(exs))

\* candidates(prev, bw)
Candidates(prev, k) == InsertAll(KMinEmpty, k, Expansions(prev))

\* evolve(candidates)
RECURSIVE EvolveValues(_)
EvolveValues(values) ==
    IF values = <<>> THEN <<>>
    ELSE <<[lb |-> Head(values).lb, s |-> Add(Head(values).s, Head(values).c)]>>
         \o EvolveValues(Tail(values))
Evolve(km) == EvolveValues(km.values)

\* `bestobj is None or obj <= bestobj': a tie replaces the incumbent
BeamImprovesOrTies(obj, curobj) == IsNone(curobj) \/ Val(obj) <= Val(curobj)

\* `bestobj is None or obj < bestobj'
BeamImproves(obj, curobj) == IsNone(curobj) \/ Val(obj) < Val(curobj)

\* the loop over the new beam that keeps the strictly best feasible solution;
\* the result is the pair (best, bestobj)
RECURSIVE BeamBest(_, _, _)
BeamBest(v, cur, curobj) ==
    IF v = <<>> THEN <<cur, curobj>>
    ELSE LET s == Head(v).s
         IN IF IsFeasible(s) /\ BeamImproves(Objective(s), curobj)
            THEN BeamBest(Tail(v), Some(s), Objective(s))
            ELSE BeamBest(Tail(v), cur, curobj)

\* the variables beam_search leaves alone
otherThanBeam == <<probVars, lcgVars, graspVars, mmasVars, lsVars, printVars, selVars, descVars>>

\* beam_search is called on start, after greedy_construction has run on a copy
BeamEnter ==
    /\ alg = "beam"
    /\ pc = "beam_enter"
    /\ best' = Some(start)
    /\ bestobj' = Objective(start)
    /\ beam' = <<[lb |-> LowerBound(start), s |-> start]>>
    /\ seen' = <<start>>
    /\ pc' = "beam_loop"
    /\ UNCHANGED <<alg, err, expired, bw, sol, iter>>
    /\ UNCHANGED otherThanBeam

\* one round of the loop of beam_search
BeamRound ==
    /\ alg = "beam"
    /\ pc = "beam_loop"
    /\ IF ExpansionRaises(beam)
       THEN /\ pc' = "raised"
            /\ err' = "TypeError"
            /\ UNCHANGED <<beam, seen, best, bestobj>>
       ELSE LET cands == Candidates(beam, bw)
            IN IF Len(cands.values) = 0
               THEN /\ pc' = "done"
                    /\ UNCHANGED <<err, beam, seen, best, bestobj>>
               ELSE LET v == Evolve(cands)
                        bb == BeamBest(v, best, bestobj)
                    IN /\ beam' = v
                       /\ seen' = seen \o [i \in 1..Len(v) |-> v[i].s]
                       /\ best' = bb[1]
                       /\ bestobj' = bb[2]
                       /\ UNCHANGED <<pc, err>>
    /\ UNCHANGED <<alg, expired, bw, sol, iter>>
    /\ UNCHANGED otherThanBeam

\* greedy_construction on a copy of start, the reference of the comparison
BeamGreedy ==
    /\ alg = "beam"
    /\ GreedyIteration("beam_enter")
    /\ UNCHANGED <<alg, err, expired, prob, start>>
    /\ UNCHANGED <<workVars, beamVars, lcgVars, graspVars, mmasVars, lsVars, printVars, selVars, descVars>>

InitBeam ==
    /\ alg = "beam"
    /\ pc = "greedy_loop"
    /\ err = ""
    /\ expired = FALSE
    /\ IdleLcg /\ IdleGrasp /\ IdleWork /\ IdleMmas /\ IdleLs /\ IdlePrinting /\ IdleSel /\ IdleDesc
    /\ prob \in DeterministicProblems
    /\ start = <<>>
    /\ gsol = start
    /\ bw \in 1..MaxWidth
    /\ beam = <<>>
    /\ seen = <<>>

NextBeam == BeamGreedy \/ BeamEnter \/ BeamRound

SpecBeam == InitBeam /\ [][NextBeam]_vars

\* the problem defines every lower-bound increment
AllIncrsDefined == \A k \in 1..prob.n : ~IsNone(prob.incr[k])

\* the solutions on the way from start to p: start and every extension up to p
PrefixesOf(p) == {SubSeq(p, 1, i) : i \in Len(start)..Len(p)}

\* q is the earliest feasible solution of least objective among the set ps
EarliestBestFeasible(q, ps) ==
    /\ q \in ps
    /\ IsFeasible(q)
    /\ \A p \in ps : IsFeasible(p) =>
           \/ PathCost(q, 1) < PathCost(p, 1)
           \/ (PathCost(q, 1) = PathCost(p, 1) /\ Len(q) <= Len(p))

\* C4 as stated: with width 1 and all increments defined, beam_search returns
\* a solution made of the same sequence of components as greedy_construction
\* (stated for the problems that have a feasible solution).
BeamOneReturnsGreedy ==
    (alg = "beam" /\ pc = "done" /\ bw = 1 /\ AllIncrsDefined /\ prob.feasLen <= prob.n)
        => best = Some(gsol)

\* C4 amended: with width 1 and all increments defined, the single beam entry
\* ends as the same sequence of added components as greedy_construction's
\* solution; beam_search returns the earliest feasible solution of least
\* objective on the way to it (start included), or start when none is
\* feasible, which is greedy's solution whenever that is the only feasible one.
BeamOneBuildsGreedy ==
    (alg = "beam" /\ pc = "done" /\ bw = 1 /\ AllIncrsDefined) =>
        /\ Len(beam) = 1
        /\ beam[1].s = gsol
        /\ IF \E p \in PrefixesOf(gsol) : IsFeasible(p)
           THEN EarliestBestFeasible(Val(best), PrefixesOf(gsol))
           ELSE best = Some(start)
        /\ (\A p \in PrefixesOf(gsol) : IsFeasible(p) <=> p = gsol) => best = Some(gsol)

\* width 1, three components with a tie between increments, feasible only
\* when complete: the returned solution is greedy's
BeamOneBuildsGreedyWitness ==
    /\ alg = "beam" /\ pc = "done" /\ bw = 1 /\ AllIncrsDefined
    /\ prob.n = 3 /\ prob.feasLen = 3
    /\ prob.incr[1] = prob.incr[3] /\ prob.incr[2] # prob.incr[1]
    /\ Len(gsol) = 3 /\ best = Some(gsol)

----------------------------------------------------------------------------
(* grasp *)

\* alpha ranges over 0, 1/2 and 1, counted in halves
AlphaValues == {0, 1, 2}
\* largest number of repetitions before the budget is seen expired
MaxReps == 2

\* C = [(s.lower_bound_incr_add(c), c) for c in s.add_moves()]
RECURSIVE IncrList(_, _)
IncrList(p, moves) ==
    IF moves = <<>> THEN <<>>
    ELSE <<[decr |-> LowerBoundIncrAdd(p, Head(moves)), c |-> Head(moves)]>>
         \o IncrList(p, Tail(moves))
GraspC(p) == IncrList(p, AddMoves(p))

\* min / max over C and cmax - cmin are a TypeError as soon as an increment
\* of C is None
GraspRaises(cl) == \E i \in 1..Len(cl) : IsNone(cl[i].decr)

CMin(cl) == CHOOSE v \in {Val(cl[i].decr) : i \in 1..Len(cl)} :
                \A i \in 1..Len(cl) : v <= Val(cl[i].decr)
CMax(cl) == CHOOSE v \in {Val(cl[i].decr) : i \in 1..Len(cl)} :
                \A i \in 1..Len(cl) : v >= Val(cl[i].decr)

\* decr <= thresh with the threshold taken from cmax alone
InRCLFromMax(decr, cmin, cmax, anum) ==
    2 * decr <= 2 * cmax + anum * (cmax - cmin)

\* decr <= thresh, thresh = cmin + alpha * (cmax - cmin), alpha = anum / 2
InRCL(decr, cmin, cmax, anum) ==
    2 * decr <= 2 * cmin + anum * (cmax - cmin)

\* RCL = [c for decr, c in C if decr <= thresh]
RCL(cl, anum) ==
    {cl[i].c : i \in {j \in 1..Len(cl) : InRCL(Val(cl[j].decr), CMin(cl), CMax(cl), anum)}}

Reverse(p) == [i \in 1..Len(p) |-> p[Len(p) + 1 - i]]

\* what a local_search argument may return for the incumbent p
LocalSearchResults(p) == {None, Some(p), Some(Reverse(p)), Some(start)}

otherThanGrasp == <<lcgVars, beamVars, mmasVars, lsVars, printVars, selVars, descVars>>

\* the problems of the randomized constructions: non-negative costs that do
\* not decrease with the component number, feasibility one component before
\* completion, at completion or never
RandomizedProblems ==
    {q \in Problems(MaxRandComp, OptionalIncrs, {v \in CostValues : v >= 0}) :
        /\ \A k \in 1..(q.n - 1) : q.cost[k] <= q.cost[k + 1]
        /\ q.feasLen >= q.n - 1}

\* greedy_construction on a copy of start, the reference of the comparison
GraspGreedy ==
    /\ alg = "grasp"
    /\ GreedyIteration("grasp_loop")
    /\ UNCHANGED <<alg, err, expired, prob, start>>
    /\ UNCHANGED <<workVars, graspVars, otherThanGrasp>>

\* the check of the while loop finds time left: a repetition starts
GraspRepetition ==
    /\ alg = "grasp"
    /\ pc = "grasp_loop"
    /\ ~expired
    /\ iter < MaxReps
    /\ iter' = iter + 1
    /\ sol' = start
    /\ b' = IF IsFeasible(start) THEN Some(start) ELSE None
    /\ bobj' = IF IsFeasible(start) THEN Objective(start) ELSE None
    /\ pc' = "grasp_construct"
    /\ UNCHANGED <<alg, err, expired, best, bestobj, alphaNum, ls>>
    /\ UNCHANGED <<probVars, otherThanGrasp>>

\* the check of the while loop finds the budget expired: grasp returns best
GraspExpired ==
    /\ alg = "grasp"
    /\ pc = "grasp_loop"
    /\ expired' = TRUE
    /\ pc' = "done"
    /\ UNCHANGED <<alg, err, alphaNum, ls, b, bobj>>
    /\ UNCHANGED <<workVars, probVars, otherThanGrasp>>

\* one iteration of `while len(C) != 0'
GraspConstruct ==
    /\ alg = "grasp"
    /\ pc = "grasp_construct"
    /\ LET cl == GraspC(sol)
       IN IF Len(cl) = 0
          THEN /\ pc' = "grasp_finish"
               /\ UNCHANGED <<err, sol, b, bobj>>
          ELSE IF GraspRaises(cl)
               THEN /\ pc' = "raised"
                    /\ err' = "TypeError"
                    /\ UNCHANGED <<sol, b, bobj>>
               ELSE \E k \in RCL(cl, alphaNum) :
                        LET ns == Add(sol, k)
                        IN /\ sol' = ns
                           /\ IF IsFeasible(ns) /\ (IsNone(bobj) \/ Val(Objective(ns)) < Val(bobj))
                              THEN b' = Some(ns) /\ bobj' = Objective(ns)
                              ELSE UNCHANGED <<b, bobj>>
                           /\ UNCHANGED <<pc, err>>
    /\ UNCHANGED <<alg, expired, best, bestobj, iter, alphaNum, ls>>
    /\ UNCHANGED <<probVars, otherThanGrasp>>

\* bobj < bestobj is a TypeError when bobj is None
GraspCompareRaises(nbobj) == ~IsNone(bestobj) /\ IsNone(nbobj)

\* the end of a repetition: optional local search, then the comparison with
\* best; s is dead from here on (the next repetition rebinds it)
GraspFinish ==
    /\ alg = "grasp"
    /\ pc = "grasp_finish"
    /\ sol' = <<>>
    /\ IF IsNone(b)
       THEN /\ pc' = "grasp_loop"
            /\ UNCHANGED <<err, b, bobj, best, bestobj>>
       ELSE \E res \in (IF ls = "none" THEN {b} ELSE LocalSearchResults(Val(b))) :
                LET nbobj == IF ls # "none" /\ ~IsNone(res) /\ IsFeasible(Val(res))
                             THEN Objective(Val(res)) ELSE bobj
                IN /\ b' = res
                   /\ bobj' = nbobj
                   /\ IF GraspCompareRaises(nbobj)
                      THEN /\ pc' = "raised"
                           /\ err' = "TypeError"
                           /\ UNCHANGED <<best, bestobj>>
                      ELSE /\ pc' = "grasp_loop"
                           /\ err' = err
                           /\ IF IsNone(bestobj) \/ Val(nbobj) < Val(bestobj)
                              THEN best' = res /\ bestobj' = nbobj
                              ELSE UNCHANGED <<best, bestobj>>
    /\ UNCHANGED <<alg, expired, iter, alphaNum, ls>>
    /\ UNCHANGED <<probVars, otherThanGrasp>>

InitGrasp ==
    /\ alg = "grasp"
    /\ pc = "greedy_loop"
    /\ err = ""
    /\ expired = FALSE
    /\ IdleLcg /\ IdleBeam /\ IdleWork /\ IdleMmas /\ IdleLs /\ IdlePrinting /\ IdleSel /\ IdleDesc
    /\ prob \in RandomizedProblems
    /\ start = <<>>
    /\ gsol = start
    /\ alphaNum \in AlphaValues
    /\ ls \in {"none", "any"}
    /\ b = None
    /\ bobj = None

NextGrasp == GraspGreedy \/ GraspRepetition \/ GraspExpired \/ GraspConstruct \/ GraspFinish

SpecGrasp == InitGrasp /\ [][NextGrasp]_vars

\* no two components have equal increments, and all increments are defined
NoTies ==
    /\ AllIncrsDefined
    /\ \A j, k \in 1..prob.n : j # k => prob.incr[j] # prob.incr[k]

IsPrefix(p, q) == Len(p) <= Len(q) /\ p = SubSeq(q, 1, Len(p))

\* C5 as stated: with alpha = 0, no ties and no local search, the solution
\* grasp returns after at least one repetition equals the solution
\* greedy_construction returns from the same start (stated for the problems
\* that have a feasible solution).
GraspZeroReturnsGreedy ==
    (alg = "grasp" /\ pc = "done" /\ iter >= 1 /\ alphaNum = 0 /\ NoTies /\ ls = "none"
        /\ prob.feasLen <= prob.n)
        => best = Some(gsol)

\* C5 amended: with alpha = 0, no ties and no local search, every repetition
\* adds exactly the components greedy_construction adds, in the same order,
\* whatever the random draws; grasp returns the earliest feasible solution of
\* least objective on the way to greedy's solution (start included), which is
\* greedy's solution whenever that is the only feasible one, and None when no
\* solution on the way is feasible or no repetition was run.
GraspZeroBuildsGreedy ==
    (alg = "grasp" /\ alphaNum = 0 /\ NoTies /\ ls = "none") =>
        /\ pc = "grasp_construct" => IsPrefix(sol, gsol)
        /\ pc = "grasp_finish" => sol = gsol
        /\ pc = "done" =>
               IF iter >= 1 /\ \E p \in PrefixesOf(gsol) : IsFeasible(p)
               THEN /\ ~IsNone(best)
                    /\ EarliestBestFeasible(Val(best), PrefixesOf(gsol))
               ELSE best = None
        /\ (pc = "done" /\ iter >= 1 /\ \A p \in PrefixesOf(gsol) : IsFeasible(p) <=> p = gsol)
               => best = Some(gsol)

\* two repetitions with alpha = 0 on two components with distinct increments,
\* the second one the smaller, feasible only when complete: grasp returns
\* greedy's solution
GraspZeroBuildsGreedyWitness ==
    /\ alg = "grasp" /\ pc = "done" /\ iter = 2 /\ alphaNum = 0 /\ NoTies /\ ls = "none"
    /\ prob.n = 2 /\ prob.feasLen = 2 /\ gsol = <<2, 1>>
    /\ best = Some(gsol)

----------------------------------------------------------------------------
(* Real numbers.  The trails are Python floats; the model computes them as *)
(* exact fractions <<numerator, denominator>> in lowest terms with a       *)
(* positive denominator.                                                   *)

RECURSIVE Gcd(_, _)
Gcd(u, w) == IF w = 0 THEN u ELSE Gcd(w, u % w)

RNorm(q) ==
    LET num == IF q[2] < 0 THEN 0 - q[1] ELSE q[1]
        den == Abs(q[2])
        g == Gcd(Abs(num), den)
    IN <<num \div g, den \div g>>

RInt(v) == <<v, 1>>
RAdd(p, q) == RNorm(<<p[1] * q[2] + q[1] * p[2], p[2] * q[2]>>)
RMul(p, q) == RNorm(<<p[1] * q[1], p[2] * q[2]>>)
\* p / q for q # 0
RDiv(p, q) == RNorm(<<p[1] * q[2], p[2] * q[1]>>)
RLe(p, q) == p[1] * q[2] <= q[1] * p[2]
RLt(p, q) == p[1] * q[2] < q[1] * p[2]
RMin(p, q) == IF RLe(p, q) THEN p ELSE q
RMax(p, q) == IF RLe(q, p) THEN p ELSE q

RECURSIVE RPow(_, _)
RPow(p, k) == IF k = 0 THEN RInt(1) ELSE RMul(p, RPow(p, k - 1))

\* 1 / rel_tol of utils.isclose
RelTolInv == 1000000

\* utils.isclose on integers: abs(u - w) <= max(rel_tol * max(abs(u), abs(w)),
\* abs_tol); the difference of two integers is within abs_tol = 1e-9 only
\* when it is 0
IsClose(u, w) == Abs(u - w) <= Max2(Abs(u), Abs(w)) \div RelTolInv

----------------------------------------------------------------------------
(* mmas *)

\* the lengths of the list of solutions (one ant each) given to mmas
AntCounts == {1, 2}
\* largest number of iterations before the budget is seen expired
MaxIter == 3

\* exponent of the trail in the selection weight
Alpha == 1
\* exponent of 1 / increment in the selection weight
Beta == 3
\* evaporation rate rho = 1/2
Rho == <<1, 2>>
\* the values of the parameter a
AValues == {1, 5}
\* the values of the parameter nrestart
NRestartValues == {1, 2}
\* the parameter taumax
TauMaxParam == RInt(1)

\* tau[k] of the defaultdict: the entry, or the default tau0
TauRead(t, t0, k) == IF k \in DOMAIN t THEN t[k] ELSE t0

\* reading tau[k] of a table whose default is 0.0 instead of tau0
MaterialiseZero(t, t0, ks) ==
    [k \in (DOMAIN t) \cup ks |-> IF k \in DOMAIN t THEN t[k] ELSE RInt(0)]

\* reading tau[k] stores the default under every key of ks not yet present
Materialise(t, t0, ks) == [k \in (DOMAIN t) \cup ks |-> TauRead(t, t0, k)]

\* (tau[k] ** alpha) * ((1.0 / lbincr) ** beta)
Weight(t, t0, k, lbincr) ==
    RMul(RPow(TauRead(t, t0, k), Alpha), RPow(RDiv(RInt(1), RInt(lbincr)), Beta))

\* sum(p): the sum of the weights of the components ks after the path q
RECURSIVE WeightSum(_, _, _, _)
WeightSum(q, t, t0, ks) ==
    IF ks = {} THEN RInt(0)
    ELSE LET k == CHOOSE v \in ks : TRUE
         IN RAdd(Weight(t, t0, k, Val(LowerBoundIncrAdd(q, k))),
                 WeightSum(q, t, t0, ks \ {k}))

\* construct_ant without the priority of the zero-increment components: any
\* addable component may be added
AntChoicesAnyMove(p, t, t0) == Range(AddMoves(p))

\* the components construct_ant may add to p: a zero-increment component if
\* there is one, else a component drawn with the weights (any of them when
\* the weights sum to 0)
AntChoices(p, t, t0) ==
    LET moves == Range(AddMoves(p))
        cszero == {k \in moves : IsClose(Val(LowerBoundIncrAdd(p, k)), 0)}
        cs == moves \ cszero
        W(k) == Weight(t, t0, k, Val(LowerBoundIncrAdd(p, k)))
    IN IF cszero # {} THEN cszero
       ELSE IF RLt(RInt(0), WeightSum(p, t, t0, cs)) THEN {k \in cs : RLt(RInt(0), W(k))}
            ELSE cs

\* the keys read in the trail table during one step of construct_ant
AntReads(p) ==
    {k \in Range(AddMoves(p)) : ~IsClose(Val(LowerBoundIncrAdd(p, k)), 0)}

\* raise ValueError("lbincr cannot be None")
AntRaises(p) == \E k \in Range(AddMoves(p)) : IsNone(LowerBoundIncrAdd(p, k))

\* max(taumin, min(taumax, v)) without the lower limit
ClampUpperOnly(v, tmin, tmax) == RMin(tmax, v)

\* max(taumin, min(taumax, v))
Clamp(v, tmin, tmax) == RMax(tmin, RMin(tmax, v))

\* an update that leaves the value as it is
EvaporateKeeps(v) == v

\* (1.0 - rho) * v
Evaporate(v) == RMul(RAdd(RInt(1), RMul(RInt(-1), Rho)), v)

\* the loop over b.components(): tau[cid] = min(taumax, tau[cid] + 1 / obj),
\* the default tau0 standing for a key not in the table
Reinforce(t, t0, comps, obj, tmax) ==
    [k \in (DOMAIN t) \cup comps |->
        IF k \in comps
        THEN RMin(tmax, RAdd(TauRead(t, t0, k), RDiv(RInt(1), RInt(obj))))
        ELSE t[k]]

\* Solution.components: the components of the path
Components(p) == Range(p)

\* argmin taking the last minimum
ArgMinLast(as) ==
    CHOOSE i \in 1..Len(as) :
        /\ \A j \in 1..Len(as) : PathCost(as[i], 1) <= PathCost(as[j], 1)
        /\ \A j \in (i + 1)..Len(as) : PathCost(as[j], 1) > PathCost(as[i], 1)

\* argmin over the objectives of the ants: the first minimum
ArgMin(as) ==
    CHOOSE i \in 1..Len(as) :
        /\ \A j \in 1..Len(as) : PathCost(as[i], 1) <= PathCost(as[j], 1)
        /\ \A j \in 1..(i - 1) : PathCost(as[j], 1) > PathCost(as[i], 1)

otherThanMmas == <<lcgVars, beamVars, lsVars, printVars, selVars, descVars, gsol, alphaNum, b, bobj>>

\* None below every increment
IncrRank(o) == IF IsNone(o) THEN -1 ELSE Val(o)

\* the problems given to the ants: those of the randomized constructions
\* whose increments do not decrease with the component number, where a
\* solution is complete with all the components or with all but one, and is
\* feasible when complete or never
AntProblems ==
    UNION {UNION {{[q EXCEPT !.cap = cp, !.feasLen = cp],
                   [q EXCEPT !.cap = cp, !.feasLen = q.n + 1]} :
                      cp \in {Max2(q.n - 1, 0), q.n}} :
           q \in {r \in RandomizedProblems :
                     /\ r.feasLen = r.n
                     /\ \A k \in 1..(r.n - 1) :
                           IncrRank(r.incr[k]) <= IncrRank(r.incr[k + 1])}}

\* the numbers of components of the problems given to mmas
MmasSizes == {0, 1, 2}
MmasProblems == {q \in AntProblems : q.n \in MmasSizes}

InitMmas ==
    /\ alg = "mmas"
    /\ pc = "mmas_loop"
    /\ err = ""
    /\ expired = FALSE
    /\ IdleLcg /\ IdleBeam /\ IdleLs /\ IdlePrinting /\ IdleSel /\ IdleDesc
    /\ alphaNum = 0 /\ b = <<>> /\ bobj = <<>>
    /\ prob \in MmasProblems
    /\ start = <<>>
    /\ gsol = <<>>
    /\ ls \in {"none", "any"}
    /\ a \in AValues
    /\ nrestart \in NRestartValues
    /\ taumax = TauMaxParam
    /\ taumin = RDiv(TauMaxParam, RInt(a))
    /\ tau0 = TauMaxParam
    /\ tau = <<>>
    /\ best = None
    /\ bestobj = None
    /\ iter = 0
    /\ ni = 0
    /\ sol = <<>>
    /\ ants = <<>>
    /\ antIdx = 0
    /\ nants \in AntCounts
    /\ improved = <<>> /\ observed = {} /\ reinforced = {}

\* the check of the while loop finds time left: an iteration starts
MmasIteration ==
    /\ alg = "mmas"
    /\ pc = "mmas_loop"
    /\ ~expired
    /\ iter < MaxIter
    /\ iter' = iter + 1
    /\ ni' = ni + 1
    /\ ants' = <<>>
    /\ antIdx' = 1
    /\ pc' = "mmas_ant"
    /\ improved' = Append(improved, FALSE)
    /\ UNCHANGED <<alg, err, expired, prob, start, ls, sol, best, bestobj>>
    /\ UNCHANGED <<a, nrestart, tau, tau0, taumax, taumin, nants, observed, reinforced>>
    /\ UNCHANGED otherThanMmas

\* the check of the while loop finds the budget expired: mmas returns best
MmasExpired ==
    /\ alg = "mmas"
    /\ pc = "mmas_loop"
    /\ expired' = TRUE
    /\ pc' = "done"
    /\ UNCHANGED <<alg, err, prob, start, ls, workVars, mmasVars>>
    /\ UNCHANGED otherThanMmas

\* construct_ant on the path p with the trails t and the default t0: the set
\* of its outcomes <<raised, path, keys read in the trail table>>; the ant
\* stops when add_moves is empty, and raises ValueError at the first step that
\* enumerates an undefined increment
RECURSIVE ConstructAnt(_, _, _, _)
ConstructAnt(p, t, t0, reads) ==
    IF AntRaises(p) THEN {<<TRUE, p, reads>>}
    ELSE IF AddMoves(p) = <<>> THEN {<<FALSE, p, reads>>}
    ELSE UNION {ConstructAnt(Add(p, k), t, t0, reads \cup AntReads(p)) :
                    k \in AntChoices(p, t, t0)}

\* the test on the ant p without the reset of the counter
TrackBestKeepsCounter(p, cur) ==
    IF IsFeasible(p) /\ (IsNone(cur[2]) \/ Val(Objective(p)) < Val(cur[2]))
    THEN <<Some(p), Objective(p), cur[3]>>
    ELSE cur

\* `if ant.is_feasible() and (bestobj is None or ant.objective() < bestobj)':
\* the triple (best, bestobj, ni) after the test on the ant p
TrackBest(p, cur) ==
    IF IsFeasible(p) /\ (IsNone(cur[2]) \/ Val(Objective(p)) < Val(cur[2]))
    THEN <<Some(p), Objective(p), 0>>
    ELSE cur

\* what the local_search argument returns for the ant p
AntLocalSearch(p) == Reverse(p)

\* `best = ant' without the copy: the stored best is the ant object itself
\* and follows the state `later' the local search leaves it in
CopyAliased(p, later) == later

\* ant.copy(): the copy keeps the state p of the ant, whatever the state
\* `later' the local search leaves the original in
Copy(p, later) == p

\* the triple (best, bestobj, ni) after the two tests on an ant: as
\* constructed and, when there is a local search, as the local search
\* returned it, the ant having been changed in place in between
AntBest(constructed, returned, cur) ==
    LET t1 == TrackBest(constructed, cur)
        kept == IF t1[1] = cur[1] /\ t1[2] = cur[2] THEN t1
                ELSE <<Some(Copy(constructed, returned)), t1[2], t1[3]>>
    IN IF ls = "none" THEN kept ELSE TrackBest(returned, kept)

\* one turn of `for s in solutions': the list is exhausted, or the clock check
\* breaks out of the loop, or an ant is constructed, compared with the best,
\* improved by the local search and appended when feasible
MmasAnt ==
    /\ alg = "mmas"
    /\ pc = "mmas_ant"
    /\ IF antIdx > nants
       THEN /\ pc' = "mmas_update"
            /\ UNCHANGED <<err, expired, best, bestobj, tau, ni, ants, antIdx, nants,
                           improved, observed>>
       ELSE \/ /\ expired' = TRUE
               /\ pc' = "mmas_update"
               /\ UNCHANGED <<err, best, bestobj, tau, ni, ants, antIdx, nants,
                              improved, observed>>
            \/ /\ ~expired
               /\ expired' = expired
               /\ \E run \in ConstructAnt(start, tau, tau0, {}) :
                      IF run[1]
                      THEN /\ pc' = "raised"
                           /\ err' = "ValueError"
                           /\ UNCHANGED <<best, bestobj, tau, ni, ants, antIdx, nants,
                                          improved, observed>>
                      ELSE \E ant \in {IF ls = "none" THEN run[2]
                                        ELSE AntLocalSearch(run[2])} :
                           \E t2 \in {AntBest(run[2], ant, <<best, bestobj, ni>>)} :
                              /\ best' = t2[1]
                              /\ bestobj' = t2[2]
                              /\ ni' = t2[3]
                              /\ improved' = IF t2[2] # bestobj
                                              THEN [improved EXCEPT ![Len(improved)] = TRUE]
                                              ELSE improved
                              /\ observed' = observed \cup Range(Objective(run[2]))
                                                       \cup Range(Objective(ant))
                              /\ ants' = IF IsFeasible(ant) THEN Append(ants, ant)
                                         ELSE ants
                              /\ tau' = Materialise(tau, tau0, run[3])
                              /\ antIdx' = antIdx + 1
                              /\ pc' = pc
                              /\ err' = err
    /\ UNCHANGED <<alg, prob, start, ls, sol, iter>>
    /\ UNCHANGED <<a, nrestart, tau0, taumax, taumin, nants, reinforced>>
    /\ UNCHANGED otherThanMmas

\* 1.0 / bestobj: a TypeError when bestobj is None, a ZeroDivisionError when
\* it is 0
UpdateError == IF IsNone(bestobj) THEN "TypeError"
               ELSE IF Val(bestobj) = 0 THEN "ZeroDivisionError" ELSE ""

\* the pheromone update at the end of an iteration
MmasUpdate ==
    /\ alg = "mmas"
    /\ pc = "mmas_update"
    /\ IF UpdateError # ""
       THEN /\ pc' = "raised"
            /\ err' = UpdateError
            /\ UNCHANGED <<tau, tau0, taumax, taumin, ants, antIdx, reinforced>>
       ELSE LET tmax == RDiv(RInt(1), RInt(Val(bestobj)))
                tmin == RDiv(tmax, RInt(a))
            IN /\ pc' = "mmas_loop"
               \* the list of ants is not read again: the next iteration
               \* starts a new one
               /\ ants' = <<>>
               /\ antIdx' = 0
               /\ err' = err
               /\ taumax' = tmax
               /\ taumin' = tmin
               /\ IF ni < nrestart
                  THEN LET t0 == Clamp(Evaporate(tau0), tmin, tmax)
                           t == [k \in DOMAIN tau |-> Clamp(Evaporate(tau[k]), tmin, tmax)]
                       IN /\ tau0' = t0
                          /\ \/ /\ Len(ants) > 0
                                /\ LET bi == ants[ArgMin(ants)]
                                   IN /\ tau' = Reinforce(t, t0, Components(bi),
                                                          PathCost(bi, 1), tmax)
                                      /\ reinforced' = reinforced \cup Components(bi)
                             \/ /\ tau' = Reinforce(t, t0, Components(Val(best)),
                                                    Val(bestobj), tmax)
                                /\ reinforced' = reinforced \cup Components(Val(best))
                  ELSE /\ tau0' = tmax
                       /\ tau' = [k \in DOMAIN tau |-> tmax]
                       /\ reinforced' = reinforced
    /\ UNCHANGED <<alg, expired, prob, start, ls, sol, best, bestobj, iter>>
    /\ UNCHANGED <<a, nrestart, ni, nants, improved, observed>>
    /\ UNCHANGED otherThanMmas

NextMmas == MmasIteration \/ MmasExpired \/ MmasAnt \/ MmasUpdate

SpecMmas == InitMmas /\ [][NextMmas]_vars

----------------------------------------------------------------------------
(* Claims on mmas *)

\* a pheromone update has just completed
AfterUpdate == alg = "mmas" /\ pc = "mmas_loop" /\ iter >= 1

\* v lies in [taumin, taumax]
WithinLimits(v) == RLe(taumin, v) /\ RLe(v, taumax)

\* C2: with a >= 1 and positive objectives, at the end of every pheromone
\* update (evaporation and reinforcement, or reinitialization) taumax is
\* 1 / bestobj, taumin is taumax / a, and the default trail and every entry
\* of the trail table lie in [taumin, taumax].
TrailsWithinLimits ==
    (AfterUpdate /\ a >= 1)
        => /\ Val(bestobj) > 0
           /\ taumax = RDiv(RInt(1), RInt(Val(bestobj)))
           /\ taumin = RDiv(taumax, RInt(a))
           /\ WithinLimits(tau0)
           /\ \A k \in DOMAIN tau : WithinLimits(tau[k])

\* a second update has evaporated an entry of the table to a value strictly
\* between the limits, next to an entry at a limit
TrailsWithinLimitsWitness ==
    /\ AfterUpdate
    /\ iter = 2
    /\ a > 1
    /\ \E k \in DOMAIN tau : RLt(taumin, tau[k]) /\ RLt(tau[k], taumax)
    /\ \E k \in DOMAIN tau : tau[k] = taumax

\* C7: at whichever clock check of a budget-bounded entry point the budget is
\* first seen expired, the call returns and does not raise.
ExpiryNeverRaises == expired => pc # "raised"

\* C8: on a problem with components where no constructed candidate is
\* feasible (and every increment is defined), the call does not raise, even when every ant of the
\* iteration is constructed before the clock is read again.
NeverFeasibleNeverRaises ==
    (/\ alg = "mmas"
     /\ prob.cap >= 1 /\ prob.feasLen > prob.n /\ AllIncrsDefined
     /\ antIdx > nants)
        => pc # "raised"

\* C9: started from a feasible solution of objective 0 without addable
\* component, with budget left, the construction does not raise.
EmptyInstanceNeverRaises ==
    (alg = "mmas" /\ prob.n = 0 /\ prob.feasLen = 0 /\ ~expired)
        => pc # "raised"

----------------------------------------------------------------------------
(* ant_system *)

\* the values of the parameter tau0
Tau0Values == {RInt(1)}

otherThanAs == <<lcgVars, beamVars, lsVars, printVars, selVars, descVars, gsol, alphaNum, b, bobj,
                 a, nrestart, taumax, taumin, ni, improved>>

\* the numbers of components of the problems given to ant_system
AsSizes == {0, 1, 2}
AsProblems == {q \in AntProblems : q.n \in AsSizes}

InitAs ==
    /\ alg = "ant_system"
    /\ pc = "as_loop"
    /\ err = ""
    /\ expired = FALSE
    /\ IdleLcg /\ IdleBeam /\ IdleLs /\ IdlePrinting /\ IdleSel /\ IdleDesc
    /\ alphaNum = 0 /\ b = <<>> /\ bobj = <<>>
    /\ prob \in AsProblems
    /\ start = <<>>
    /\ gsol = <<>>
    /\ ls \in {"none", "any"}
    /\ a = 0 /\ nrestart = 0 /\ taumax = <<>> /\ taumin = <<>> /\ ni = 0
    /\ tau0 \in Tau0Values
    /\ tau = <<>>
    /\ best = None
    /\ bestobj = None
    /\ iter = 0
    /\ sol = <<>>
    /\ ants = <<>>
    /\ antIdx = 0
    /\ nants \in AntCounts
    /\ improved = <<>> /\ observed = {} /\ reinforced = {}

\* the check of the while loop finds time left: an iteration starts
AsIteration ==
    /\ alg = "ant_system"
    /\ pc = "as_loop"
    /\ ~expired
    /\ iter < MaxIter
    /\ iter' = iter + 1
    /\ ants' = <<>>
    /\ antIdx' = 1
    /\ pc' = "as_ant"
    /\ UNCHANGED <<alg, err, expired, prob, start, ls, sol, best, bestobj>>
    /\ UNCHANGED <<tau, tau0, nants, observed, reinforced>>
    /\ UNCHANGED otherThanAs

\* the check of the while loop finds the budget expired: ant_system returns
\* best
AsExpired ==
    /\ alg = "ant_system"
    /\ pc = "as_loop"
    /\ expired' = TRUE
    /\ pc' = "done"
    /\ UNCHANGED <<alg, err, prob, start, ls, workVars>>
    /\ UNCHANGED <<tau, tau0, ants, antIdx, nants, observed, reinforced>>
    /\ UNCHANGED otherThanAs

\* one turn of `for s in solutions': the list is exhausted, or the clock check
\* breaks out of the loop, or an ant is constructed, compared with the best,
\* improved by the local search and appended
AsAnt ==
    /\ alg = "ant_system"
    /\ pc = "as_ant"
    /\ IF antIdx > nants
       THEN /\ pc' = "as_update"
            /\ UNCHANGED <<err, expired, best, bestobj, tau, ants, antIdx, observed>>
       ELSE \/ /\ expired' = TRUE
               /\ pc' = "as_update"
               /\ UNCHANGED <<err, best, bestobj, tau, ants, antIdx, observed>>
            \/ /\ ~expired
               /\ expired' = expired
               /\ \E run \in ConstructAnt(start, tau, tau0, {}) :
                      IF run[1]
                      THEN /\ pc' = "raised"
                           /\ err' = "ValueError"
                           /\ UNCHANGED <<best, bestobj, tau, ants, antIdx, observed>>
                      ELSE \E ant \in {IF ls = "none" THEN run[2]
                                        ELSE AntLocalSearch(run[2])} :
                           \E t2 \in {AntBest(run[2], ant, <<best, bestobj, 0>>)} :
                              /\ best' = t2[1]
                              /\ bestobj' = t2[2]
                              /\ ants' = Append(ants, ant)
                              /\ observed' = observed \cup Range(Objective(run[2]))
                                                       \cup Range(Objective(ant))
                              /\ tau' = Materialise(tau, tau0, run[3])
                              /\ antIdx' = antIdx + 1
                              /\ pc' = pc
                              /\ err' = err
    /\ UNCHANGED <<alg, prob, start, ls, sol, iter, tau0, nants, reinforced>>
    /\ UNCHANGED otherThanAs

\* 1 / obj is a ZeroDivisionError for a feasible ant of objective 0 that has
\* a component
AsUpdateRaises ==
    \E i \in 1..Len(ants) :
        IsFeasible(ants[i]) /\ PathCost(ants[i], 1) = 0 /\ Components(ants[i]) # {}

\* the loop over the ants from the i-th on: every feasible ant adds 1 / obj
\* to the trail of each of its components, the default t0 standing for a key
\* not in the table
RECURSIVE Deposit(_, _, _)
Deposit(t, t0, i) ==
    IF i > Len(ants) THEN t
    ELSE IF ~IsFeasible(ants[i]) THEN Deposit(t, t0, i + 1)
         ELSE Deposit([k \in (DOMAIN t) \cup Components(ants[i]) |->
                          IF k \in Components(ants[i])
                          THEN RAdd(TauRead(t, t0, k),
                                    RDiv(RInt(1), RInt(PathCost(ants[i], 1))))
                          ELSE t[k]],
                      t0, i + 1)

\* the pheromone update at the end of an iteration
AsUpdate ==
    /\ alg = "ant_system"
    /\ pc = "as_update"
    /\ IF AsUpdateRaises
       THEN /\ pc' = "raised"
            /\ err' = "ZeroDivisionError"
            /\ UNCHANGED <<tau, tau0, ants, antIdx, reinforced>>
       ELSE /\ pc' = "as_loop"
            /\ err' = err
            /\ tau0' = Evaporate(tau0)
            /\ tau' = Deposit([k \in DOMAIN tau |-> Evaporate(tau[k])],
                              Evaporate(tau0), 1)
            /\ reinforced' = reinforced \cup
                   UNION {Components(ants[i]) : i \in {j \in 1..Len(ants) : IsFeasible(ants[j])}}
            \* the list of ants is not read again: the next iteration starts
            \* a new one
            /\ ants' = <<>>
            /\ antIdx' = 0
    /\ UNCHANGED <<alg, expired, prob, start, ls, sol, best, bestobj, iter, nants, observed>>
    /\ UNCHANGED otherThanAs

NextAs == AsIteration \/ AsExpired \/ AsAnt \/ AsUpdate

SpecAs == InitAs /\ [][NextAs]_vars

----------------------------------------------------------------------------
(* Undefined increments in beam_search, grasp and the ant constructions *)

\* every component costs 1: the costs play no part in the enumeration of the
\* increments
UnitCosts == \A k \in 1..prob.n : prob.cost[k] = 1

InitConstruction == (InitBeam \/ InitGrasp \/ InitMmas \/ InitAs) /\ UnitCosts

NextConstruction == NextBeam \/ NextGrasp \/ NextMmas \/ NextAs

SpecConstruction == InitConstruction /\ [][NextConstruction]_vars

\* the problem leaves undefined the increment of a component that the
\* solution p enumerates as addable
EnumeratesUndefined(p) == \E k \in Range(AddMoves(p)) : IsNone(prob.incr[k])

\* the step about to be taken enumerates the add moves of a solution
EnumerationStep ==
    \/ alg = "beam" /\ pc = "beam_loop"
          /\ \E i \in 1..Len(beam) : EnumeratesUndefined(beam[i].s)
    \/ alg = "grasp" /\ pc = "grasp_construct" /\ EnumeratesUndefined(sol)
    \/ alg = "mmas" /\ pc = "mmas_ant" /\ antIdx <= nants /\ ~expired'
          /\ EnumeratesUndefined(start)
    \/ alg = "ant_system" /\ pc = "as_ant" /\ antIdx <= nants /\ ~expired'
          /\ EnumeratesUndefined(start)

\* C10: in beam_search, grasp and the ant construction of ant_system and
\* mmas, a step that enumerates an addable component whose increment is
\* undefined ends with an error signalled to the caller: no component is
\* added to any solution and the call does not return.
UndefinedIncrementRaises ==
    [][EnumerationStep =>
          /\ pc' = "raised"
          /\ err' \in {"TypeError", "ValueError"}
          /\ UNCHANGED <<sol, beam, best, ants>>]_vars

\* the construction of an ant of mmas has met an undefined increment
UndefinedIncrementRaisesWitness ==
    /\ pc = "raised"
    /\ err = "ValueError"
    /\ alg = "mmas"
    /\ EnumeratesUndefined(start)

----------------------------------------------------------------------------
(* The local-search contract, on a landscape: the solutions 1..nsol stand  *)
(* in a line, a local move goes to the left or the right neighbour, and    *)
(* obj[s] is the objective of the solution s.                              *)

\* largest number of solutions of a landscape
MaxSol == 3
\* largest number of scans a call starts before it sees its budget expired
MaxRounds == 2
\* the objectives a solution may have
ObjValues == {0, 1, 1000000, 1000001}

Landscapes == UNION {[nsol : {k}, obj : [1..k -> ObjValues]] : k \in 1..MaxSol}

\* Solution.objective
LsObjective(s) == land.obj[s]

\* Solution.local_moves: the move to the left, then the move to the right
LocalMoves(s) ==
    (IF s > 1 THEN <<-1>> ELSE <<>>) \o (IF s < land.nsol THEN <<1>> ELSE <<>>)

\* Solution.step
Step(s, mv) == s + mv

\* Solution.objective_incr_local
ObjectiveIncrLocal(s, mv) == land.obj[s + mv] - land.obj[s]

\* Solution.perturb: the solutions that k random local moves may lead to
RECURSIVE Perturb(_, _)
Perturb(s, k) ==
    IF k = 0 \/ LocalMoves(s) = <<>> THEN {s}
    ELSE UNION {Perturb(Step(s, mv), k - 1) : mv \in Range(LocalMoves(s))}

\* the sequence q without its i-th element
RemoveAt(q, i) == SubSeq(q, 1, i - 1) \o SubSeq(q, i + 1, Len(q))

\* largest number of solutions the history of a call keeps
MaxVisits == 4

\* the history of the call once it works on the solution s
Visit(s) == IF Len(visited) < MaxVisits THEN Append(visited, s) ELSE visited

\* the record of a call that returns the solution s
Returned(s, how) == [sol |-> s, exit |-> how, steps |-> steps]

otherThanLs == <<lcgVars, probVars, beamVars, graspVars, mmasVars, printVars, selVars, descVars, sol>>

----------------------------------------------------------------------------
(* ils *)

\* the values of the parameter ks
KickValues == {1, 2, 3}

InitIls ==
    /\ alg = "ils"
    /\ pc = "ils_loop"
    /\ err = ""
    /\ expired = FALSE
    /\ IdleLcg /\ IdleProb /\ IdleBeam /\ IdleGrasp /\ IdleMmas /\ IdlePrinting /\ IdleSel /\ IdleDesc
    /\ sol = <<>>
    /\ land \in Landscapes
    /\ arg \in 1..land.nsol
    /\ work = arg
    /\ best = Some(arg)
    /\ bestobj = Some(land.obj[arg])
    /\ kick \in KickValues
    /\ iter = 0
    /\ scan = <<>>
    /\ bestIncr = 0
    /\ bestMove = None
    /\ steps = 0
    /\ rets = <<>>

\* `if obj < best_obj: return solution / else: return best'
IlsResult == IF LsObjective(work) < Val(bestobj) THEN work ELSE Val(best)

\* the check of the while loop finds time left: a scan of
\* random_local_moves_wor starts
IlsRound ==
    /\ alg = "ils"
    /\ pc = "ils_loop"
    /\ ~expired
    /\ iter < MaxRounds
    /\ iter' = iter + 1
    /\ scan' = LocalMoves(work)
    /\ pc' = "ils_scan"
    /\ UNCHANGED <<alg, err, expired, best, bestobj>>
    /\ UNCHANGED <<land, arg, work, bestIncr, bestMove, kick, steps, rets>>
    /\ UNCHANGED otherThanLs

\* the check of the while loop finds the budget expired
IlsExpired ==
    /\ alg = "ils"
    /\ pc = "ils_loop"
    /\ expired' = TRUE
    /\ rets' = Append(rets, Returned(IlsResult, "budget"))
    /\ pc' = "done"
    /\ UNCHANGED <<alg, err, best, bestobj, iter>>
    /\ UNCHANGED <<land, arg, work, scan, bestIncr, bestMove, kick, steps>>
    /\ UNCHANGED otherThanLs

\* the scan yields one more move, any of those not yet yielded: a strictly
\* improving move is applied and ends the scan; after any other move the
\* clock is read
IlsScan ==
    /\ alg = "ils"
    /\ pc = "ils_scan"
    /\ scan # <<>>
    /\ \E i \in 1..Len(scan) :
          LET incr == ObjectiveIncrLocal(work, scan[i])
          IN IF incr < 0 /\ ~IsClose(incr, 0)
             THEN /\ work' = Step(work, scan[i])
                  /\ steps' = steps + 1
                  /\ scan' = <<>>
                  /\ pc' = "ils_loop"
                  /\ UNCHANGED <<expired, rets>>
             ELSE \/ /\ expired' = TRUE
                     /\ rets' = Append(rets, Returned(IlsResult, "budget"))
                     /\ pc' = "done"
                     /\ UNCHANGED <<work, steps, scan>>
                  \/ /\ scan' = RemoveAt(scan, i)
                     /\ UNCHANGED <<pc, expired, work, steps, rets>>
    /\ UNCHANGED <<alg, err, best, bestobj, iter>>
    /\ UNCHANGED <<land, arg, bestIncr, bestMove, kick>>
    /\ UNCHANGED otherThanLs

\* the else clause of the scan: a local optimum becomes the incumbent when its
\* objective is below or close to best_obj, else the incumbent is taken up
\* again; then the solution is perturbed
IlsLocalOptimum ==
    /\ alg = "ils"
    /\ pc = "ils_scan"
    /\ scan = <<>>
    /\ LET obj == LsObjective(work)
           accept == obj < Val(bestobj) \/ IsClose(obj, Val(bestobj))
       IN /\ best' = IF accept THEN Some(work) ELSE best
          /\ bestobj' = IF accept THEN Some(obj) ELSE bestobj
          /\ work' \in Perturb(IF accept THEN work ELSE Val(best), kick)
    /\ pc' = "ils_loop"
    /\ UNCHANGED <<alg, err, expired, iter>>
    /\ UNCHANGED <<land, arg, scan, bestIncr, bestMove, kick, steps, rets>>
    /\ UNCHANGED otherThanLs

NextIls == IlsRound \/ IlsExpired \/ IlsScan \/ IlsLocalOptimum

SpecIls == InitIls /\ [][NextIls]_vars

\* C3: the solution ils returns has an objective less than or equal to the
\* objective the input solution had when ils was called.
IlsNeverWorse ==
    (alg = "ils" /\ pc = "done") => LsObjective(rets[1].sol) <= LsObjective(arg)

----------------------------------------------------------------------------
(* best_improvement, called again on the solution it returned *)

\* number of successive calls of best_improvement
MaxCalls == 2

\* best_incr at the start of a round, kept from the round before
RoundBestIncrStale == bestIncr

\* best_incr at the start of a round
RoundBestIncr == 0

\* best_improvement is called with a budget of the kind bud
InitBiWith(bud) ==
    /\ alg = "best_improvement"
    /\ pc = "bi_loop"
    /\ err = ""
    /\ expired = FALSE
    /\ IdleLcg /\ IdleProb /\ IdleBeam /\ IdleGrasp /\ IdleMmas /\ IdleWork
    /\ IdlePrinting /\ IdleSel
    /\ budget = bud /\ move = None /\ initTemp = 0
    /\ land \in Landscapes
    /\ arg \in 1..land.nsol
    /\ work = arg
    /\ visited = <<arg>>
    /\ kick = 0
    /\ scan = <<>>
    /\ bestIncr = 0
    /\ bestMove = None
    /\ steps = 0
    /\ rets = <<>>

InitBi == InitBiWith("finite")

\* `return solution': the call is recorded, and the last call ends the run
BiReturn(how) ==
    /\ rets' = Append(rets, Returned(work, how))
    /\ pc' = IF Len(rets) + 1 >= MaxCalls THEN "done" ELSE "bi_returned"

\* the check of the while loop finds time left: a round starts
BiRound ==
    /\ alg = "best_improvement"
    /\ pc = "bi_loop"
    /\ ~expired
    /\ budget = "never" \/ iter < MaxRounds
    /\ iter' = iter + 1
    /\ bestIncr' = RoundBestIncr
    /\ bestMove' = None
    /\ scan' = LocalMoves(work)
    /\ pc' = "bi_scan"
    /\ UNCHANGED <<alg, err, expired, sol, best, bestobj>>
    /\ UNCHANGED <<land, arg, work, kick, steps, rets>>
    /\ UNCHANGED <<lcgVars, probVars, beamVars, graspVars, mmasVars, printVars, selVars>>
    /\ UNCHANGED descVars

\* the check of the while loop finds the budget expired
BiExpired ==
    /\ alg = "best_improvement"
    /\ pc = "bi_loop"
    /\ budget = "finite"
    /\ expired' = TRUE
    /\ BiReturn("budget")
    /\ UNCHANGED <<alg, err, workVars>>
    /\ UNCHANGED <<land, arg, work, scan, bestIncr, bestMove, kick, steps>>
    /\ UNCHANGED <<lcgVars, probVars, beamVars, graspVars, mmasVars, printVars, selVars>>
    /\ UNCHANGED descVars

\* one turn of the loop over local_moves: the move is compared with the best
\* of the round, then the clock is read and may end the scan
BiScan ==
    /\ alg = "best_improvement"
    /\ pc = "bi_scan"
    /\ scan # <<>>
    /\ LET delta == ObjectiveIncrLocal(work, Head(scan))
           better == delta < bestIncr /\ ~IsClose(delta, bestIncr)
       IN /\ bestIncr' = IF better THEN delta ELSE bestIncr
          /\ bestMove' = IF better THEN Some(Head(scan)) ELSE bestMove
    /\ scan' = Tail(scan)
    /\ \/ /\ budget = "finite"
          /\ expired' = TRUE
          /\ pc' = "bi_apply"
       \/ UNCHANGED <<expired, pc>>
    /\ UNCHANGED <<alg, err, workVars>>
    /\ UNCHANGED <<land, arg, work, kick, steps, rets>>
    /\ UNCHANGED <<lcgVars, probVars, beamVars, graspVars, mmasVars, printVars, selVars>>
    /\ UNCHANGED descVars

\* after the scan, complete or cut short by the clock: the best move found is
\* applied, and without one the call returns
BiApply ==
    /\ alg = "best_improvement"
    /\ pc = "bi_apply" \/ (pc = "bi_scan" /\ scan = <<>>)
    /\ IF ~IsNone(bestMove)
       THEN /\ work' = Step(work, Val(bestMove))
            /\ visited' = Visit(Step(work, Val(bestMove)))
            /\ steps' = steps + 1
            /\ pc' = "bi_loop"
            /\ UNCHANGED rets
       ELSE /\ BiReturn(IF scan = <<>> THEN "optimum" ELSE "budget")
            /\ UNCHANGED <<work, steps, visited>>
    /\ UNCHANGED <<alg, err, expired, workVars>>
    /\ UNCHANGED <<land, arg, scan, bestIncr, bestMove, kick>>
    /\ UNCHANGED <<lcgVars, probVars, beamVars, graspVars, mmasVars, printVars, selVars>>
    /\ UNCHANGED <<budget, move, initTemp>>

\* best_improvement is called on the solution it returned, with a new budget
BiCallAgain ==
    /\ alg = "best_improvement"
    /\ pc = "bi_returned"
    /\ pc' = "bi_loop"
    /\ expired' = FALSE
    /\ iter' = 0
    /\ steps' = 0
    /\ scan' = <<>>
    /\ bestIncr' = 0
    /\ bestMove' = None
    /\ visited' = <<work>>
    /\ UNCHANGED <<alg, err, sol, best, bestobj>>
    /\ UNCHANGED <<land, arg, work, kick, rets>>
    /\ UNCHANGED <<lcgVars, probVars, beamVars, graspVars, mmasVars, printVars, selVars>>
    /\ UNCHANGED <<budget, move, initTemp>>

NextBi == BiRound \/ BiExpired \/ BiScan \/ BiApply \/ BiCallAgain

SpecBi == InitBi /\ [][NextBi]_vars

\* the call after the i-th one applied no step and returned the same solution
NoStepAfter(i) == rets[i + 1].steps = 0 /\ rets[i + 1].sol = rets[i].sol

\* C6 as stated: a call of best_improvement on the solution returned by a
\* previous call applies no step and returns the solution unchanged.
BiIdempotent ==
    alg = "best_improvement" => \A i \in 1..(Len(rets) - 1) : NoStepAfter(i)

\* C6 amended: when a call of best_improvement returned because a complete
\* scan of the local moves found no improving move, the next call on the
\* returned solution applies no step and returns the solution unchanged.
BiIdempotentAtOptimum ==
    alg = "best_improvement" =>
        /\ \A i \in 1..(Len(rets) - 1) : rets[i].exit = "optimum" => NoStepAfter(i)
        /\ (/\ rets # <<>> /\ rets[Len(rets)].exit = "optimum"
            /\ pc \in {"bi_loop", "bi_scan", "bi_apply"})
              => (steps = 0 /\ work = rets[Len(rets)].sol)

\* a first call has descended to a local optimum, and the second call has
\* scanned every move of it without applying one
BiIdempotentAtOptimumWitness ==
    /\ alg = "best_improvement"
    /\ Len(rets) = 2
    /\ rets[1].exit = "optimum" /\ rets[1].steps >= 1
    /\ rets[2].exit = "optimum" /\ rets[2].steps = 0
    /\ rets[2].sol = rets[1].sol

----------------------------------------------------------------------------
(* 3dprinting.py: Problem and Solution of the 3D-printing scheduling problem *)

\* largest number of items of an instance
MaxItems == 3
\* (production time, penalty weight, due date) of the items instances are made of
ItemKinds == {<<2, 1, 2>>, <<3, 2, 4>>, <<1, 3, 1>>}

\* the three lists read from the input file, one entry per item
InstanceOf(items) ==
    [production_times |-> [i \in 1..Len(items) |-> items[i][1]],
     penalty_weights |-> [i \in 1..Len(items) |-> items[i][2]],
     due_dates |-> [i \in 1..Len(items) |-> items[i][3]]]

Instances == UNION {{InstanceOf(items) : items \in [1..nn -> ItemKinds]} : nn \in 0..MaxItems}

\* Problem.__init__ keeps the number of items and drops the three lists
ProblemInit(ins) ==
    [n_items |-> Len(ins.production_times), attrs |-> {"n_items"}]

\* a problem object that also carries the three lists as attributes
ProblemWithLists(ins) ==
    [n_items |-> Len(ins.production_times),
     attrs |-> {"n_items", "production_times", "penalty_weights", "due_dates"}]

\* self.problem.production_times and the like can be read
HasLists == "production_times" \in pprob.attrs

\* Problem.empty_solution: `used' is passed as a list
EmptySolution(pr) ==
    [path |-> <<>>, used |-> [list |-> TRUE, items |-> {}],
     unused |-> 0..(pr.n_items - 1), cost |-> 0, time_spent |-> 0]

\* Solution.__init__ called with an empty path and `used' a set
SolutionInit(pr) ==
    [path |-> <<>>, used |-> [list |-> FALSE, items |-> {}],
     unused |-> 0..(pr.n_items - 1), cost |-> 0, time_spent |-> 0]

\* items are numbered from 0, TLA+ sequences from 1
ProductionTime(k) == inst.production_times[k + 1]
PenaltyWeight(k) == inst.penalty_weights[k + 1]
DueDate(k) == inst.due_dates[k + 1]

\* Solution.is_feasible
PrintingIsFeasible(s) == Len(s.path) = pprob.n_items

\* Solution.objective as first defined; the class body rebinds the name below
PrintingObjectiveShadowed(s) ==
    IF Len(s.path) = pprob.n_items THEN Some(s.cost) ELSE None

\* Solution.objective: the definition in force, the last one of the class body
PrintingObjective(s) == Some(s.cost)

\* a set of small integers is iterated in increasing order
RECURSIVE Ascending(_)
Ascending(set) ==
    IF set = {} THEN <<>>
    ELSE LET least == CHOOSE v \in set : \A u \in set : v <= u
         IN <<least>> \o Ascending(set \ {least})

\* Solution.add_moves
PrintingAddMoves(s) ==
    IF Len(s.path) < pprob.n_items THEN Ascending(s.unused) ELSE <<>>

\* Solution.local_moves, as pairs (i, j) of 0-based positions
PrintingLocalMoves(s) ==
    {<<i, j>> : i \in 0..(Len(s.path) - 3), j \in 0..(Len(s.path) - 2)} \cap
    {mv \in (0..MaxItems) \X (0..MaxItems) : mv[1] < mv[2]}

\* sum of the production times of a path
RECURSIVE TotalTime(_)
TotalTime(q) == IF q = <<>> THEN 0 ELSE ProductionTime(Head(q)) + TotalTime(Tail(q))

\* Solution.lower_bound: the exception it raises ("" when it returns) and its value
PrintingLowerBound(q) ==
    IF ~HasLists THEN [err |-> "AttributeError", val |-> 0]
    ELSE IF q = <<>> THEN [err |-> "IndexError", val |-> 0]
    ELSE LET last == q[Len(q)]
             total == TotalTime(q)
         IN [err |-> "",
             val |-> (IF total > 0 THEN total * PenaltyWeight(last) ELSE total)
                     - DueDate(last)]

\* Solution.lower_bound_incr_add: list.append returns None, so new_path is None
\* and both bounds are taken over self.path
PrintingLowerBoundIncrAdd(s, k) ==
    IF Len(s.path) <= pprob.n_items
    THEN LET new == PrintingLowerBound(s.path)
             old == PrintingLowerBound(s.path)
         IN IF new.err # "" THEN [err |-> new.err, val |-> None]
            ELSE [err |-> "", val |-> Some(new.val - old.val)]
    ELSE [err |-> "", val |-> Some(0)]

\* Solution.add: the solution it leaves and the exception it raises, if any
PrintingAddResult(s, k) ==
    LET s1 == [s EXCEPT !.path = Append(s.path, k), !.unused = s.unused \ {k}]
        s2 == [s1 EXCEPT !.used.items = s.used.items \cup {k}]
        t2 == s.time_spent + ProductionTime(k)
        s3 == [s2 EXCEPT !.time_spent = t2,
                         !.cost = s.cost + PenaltyWeight(k) * Max2(0, t2 - DueDate(k))]
    IN IF s.used.list THEN [sol |-> s1, err |-> "AttributeError"]
       ELSE IF ~HasLists THEN [sol |-> s2, err |-> "AttributeError"]
       ELSE [sol |-> s3, err |-> ""]

\* Solution.step: the loop after the swap assigns two locals only
PrintingStepResult(s, mv) ==
    LET i == mv[1] + 1
        j == mv[2] + 1
        s1 == [s EXCEPT !.path = [s.path EXCEPT ![i] = s.path[j], ![j] = s.path[i]]]
    IN IF s1.path # <<>> /\ ~HasLists THEN [sol |-> s1, err |-> "AttributeError"]
       ELSE [sol |-> s1, err |-> ""]

\* evaluators/3d_printing.evaluate: completion time and total penalty of a path
RECURSIVE EvaluateFrom(_, _, _, _)
EvaluateFrom(q, i, cc, obj) ==
    IF i > Len(q) THEN [time |-> cc, obj |-> obj]
    ELSE LET c1 == cc + ProductionTime(q[i])
         IN EvaluateFrom(q, i + 1, c1, obj + PenaltyWeight(q[i]) * Max2(c1 - DueDate(q[i]), 0))
Evaluate(q) == EvaluateFrom(q, 1, 0, 0)

\* greedy_construction over a 3dprinting Solution: the (increment, component)
\* pairs of one evaluation of min(), or the exception the evaluation raises
PrintingGreedyPairs(s) ==
    LET moves == PrintingAddMoves(s)
    IN [i \in 1..Len(moves) |-> [incr |-> PrintingLowerBoundIncrAdd(s, moves[i]), k |-> moves[i]]]

\* the first pair with the least defined increment (None when there is none)
RECURSIVE PrintingGreedyMin(_, _, _)
PrintingGreedyMin(pairs, i, cur) ==
    IF i > Len(pairs) THEN cur
    ELSE IF IsNone(pairs[i].incr.val) THEN PrintingGreedyMin(pairs, i + 1, cur)
    ELSE IF IsNone(cur) \/ Val(pairs[i].incr.val) < Val(Val(cur).incr.val)
         THEN PrintingGreedyMin(pairs, i + 1, Some(pairs[i]))
         ELSE PrintingGreedyMin(pairs, i + 1, cur)

otherThanPrinting == <<lcgVars, beamVars, graspVars, mmasVars, lsVars, workVars, selVars, descVars,
                       prob, gsol, expired>>

InitPrinting ==
    /\ alg = "3dprinting"
    /\ pc = "ready"
    /\ err = ""
    /\ expired = FALSE
    /\ IdleLcg /\ IdleBeam /\ IdleGrasp /\ IdleMmas /\ IdleLs /\ IdleWork /\ IdleSel /\ IdleDesc
    /\ prob = <<>> /\ gsol = <<>> /\ start = <<>>
    /\ inst \in Instances
    /\ \/ pprob = ProblemInit(inst) /\ psol = EmptySolution(pprob)
       \/ pprob = ProblemWithLists(inst) /\ psol = SolutionInit(pprob)

\* sol.add(c) for a component c yielded by sol.add_moves()
PrintingAdd ==
    /\ alg = "3dprinting" /\ pc = "ready"
    /\ \E k \in Range(PrintingAddMoves(psol)) :
         /\ psol' = PrintingAddResult(psol, k).sol
         /\ err' = PrintingAddResult(psol, k).err
    /\ UNCHANGED <<alg, pc, inst, pprob, start, otherThanPrinting>>

\* sol.step(mv) for a move mv yielded by sol.local_moves()
PrintingStep ==
    /\ alg = "3dprinting" /\ pc = "ready"
    /\ \E mv \in PrintingLocalMoves(psol) :
         /\ psol' = PrintingStepResult(psol, mv).sol
         /\ err' = PrintingStepResult(psol, mv).err
    /\ UNCHANGED <<alg, pc, inst, pprob, start, otherThanPrinting>>

\* greedy_construction(sol) is called
PrintingGreedyCall ==
    /\ alg = "3dprinting" /\ pc = "ready"
    /\ pc' = "greedy"
    /\ err' = ""
    /\ start' = psol.path
    /\ UNCHANGED <<alg, inst, pprob, psol, otherThanPrinting>>

\* one turn of the loop of greedy_construction
PrintingGreedyIteration ==
    /\ alg = "3dprinting" /\ pc = "greedy"
    /\ LET pairs == PrintingGreedyPairs(psol)
           failed == {i \in 1..Len(pairs) : pairs[i].incr.err # ""}
           chosen == PrintingGreedyMin(pairs, 1, None)
       IN IF failed # {}
          THEN /\ pc' = "raised"
               /\ err' = pairs[CHOOSE i \in failed : \A j \in failed : i <= j].incr.err
               /\ psol' = psol
          ELSE IF IsNone(chosen)
          THEN /\ pc' = "returned"
               /\ err' = ""
               /\ psol' = psol
          ELSE LET res == PrintingAddResult(psol, Val(chosen).k)
               IN /\ psol' = res.sol
                  /\ err' = res.err
                  /\ pc' = IF res.err # "" THEN "raised" ELSE "greedy"
    /\ UNCHANGED <<alg, inst, pprob, start, otherThanPrinting>>

NextPrinting == PrintingAdd \/ PrintingStep \/ PrintingGreedyCall \/ PrintingGreedyIteration

SpecPrinting == InitPrinting /\ [][NextPrinting]_vars

\* C11: after any sequence of add and step operations the cached accumulators
\* time_spent and cost of the 3D-printing Solution equal the completion time and
\* the total weighted tardiness recomputed from scratch over the current path.
CachedEqualsRecomputed ==
    alg = "3dprinting" =>
        /\ psol.time_spent = Evaluate(psol.path).time
        /\ psol.cost = Evaluate(psol.path).obj

\* C12: is_feasible() is true exactly when the path contains all n_items items,
\* and objective() is defined exactly when is_feasible() is true.
ObjectiveDefinedIffFeasible ==
    alg = "3dprinting" =>
        /\ PrintingIsFeasible(psol) <=> Range(psol.path) = 0..(pprob.n_items - 1)
        /\ ~IsNone(PrintingObjective(psol)) <=> PrintingIsFeasible(psol)

\* the instance of the regression oracle
RegressionInstance ==
    [production_times |-> <<2, 3, 1>>, penalty_weights |-> <<1, 2, 3>>,
     due_dates |-> <<2, 4, 1>>]

\* C13: on the instance with production times [2,3,1], weights [1,2,3] and due
\* dates [2,4,1], greedy_construction started from Problem.empty_solution()
\* ends without error, with a path that is a permutation of the three items
\* and an objective equal to the total penalty accumulated along that path.
GreedyRegression ==
    (/\ alg = "3dprinting"
     /\ inst = RegressionInstance
     /\ pprob = ProblemInit(inst)
     /\ start = <<>>
     /\ pc \in {"returned", "raised"})
    => /\ pc = "returned"
       /\ Len(psol.path) = 3 /\ Range(psol.path) = {0, 1, 2}
       /\ PrintingObjective(psol) = Some(Evaluate(psol.path).obj)

----------------------------------------------------------------------------
(* beam_search: the selection of a round *)

\* the score lb + lower_bound_incr_add of the i-th candidate of a round
ScoreOf(exs, i) == exs[i].e.lb + Val(LowerBoundIncrAdd(exs[i].e.s, exs[i].c))

\* the candidates a round has to retain: those with fewer than k candidates
\* ahead of them, an earlier one being ahead of a later one of equal score
SmallestOf(exs, k) ==
    {i \in 1..Len(exs) :
        Cardinality({j \in 1..Len(exs) :
            \/ ScoreOf(exs, j) < ScoreOf(exs, i)
            \/ ScoreOf(exs, j) = ScoreOf(exs, i) /\ j < i}) < k}

\* a round of beam_search that generates at least one candidate
BeamSelectionStep ==
    /\ alg = "beam" /\ pc = "beam_loop"
    /\ ~ExpansionRaises(beam)
    /\ Expansions(beam) # <<>>

\* C14: in every round of beam_search the next beam consists of exactly the
\* min(bw, number of candidates) candidates of smallest score among all the
\* candidates of the round, an earlier one winning over a later one of equal
\* score; no discarded candidate has a smaller score than a retained one.
BeamKeepsSmallest ==
    [][BeamSelectionStep =>
        LET exs == Expansions(beam)
        IN /\ Len(beam') = Min2(bw, Len(exs))
           /\ Range(beam') = {[lb |-> ScoreOf(exs, i), s |-> Add(exs[i].e.s, exs[i].c)] :
                                i \in SmallestOf(exs, bw)}]_vars

----------------------------------------------------------------------------
(* beam_search: the solution returned *)

\* positions in the history of the feasible solutions that were in the beam
FeasibleSeen == {i \in 1..Len(seen) : IsFeasible(seen[i])}

\* seen[i] is feasible, of least objective among the feasible solutions that
\* were in the beam, and the earliest of those of that objective
EarliestBestSeen(i) ==
    /\ i \in FeasibleSeen
    /\ \A j \in FeasibleSeen :
           \/ PathCost(seen[i], 1) < PathCost(seen[j], 1)
           \/ PathCost(seen[i], 1) = PathCost(seen[j], 1) /\ i <= j

\* C15 as stated: beam_search returns a feasible solution, the earliest of
\* least objective among the initial solution and every solution that was in
\* the beam in some round.
BeamReturnsFeasibleBest ==
    (alg = "beam" /\ pc = "done") =>
        /\ IsFeasible(Val(best))
        /\ \E i \in FeasibleSeen : EarliestBestSeen(i) /\ best = Some(seen[i])

\* C15 amended: when the initial solution or a solution that was in the beam in
\* some round is feasible, best is the earliest feasible one of least objective
\* among them and bestobj its objective, at every round and at the return;
\* when none was feasible, best is the initial solution and bestobj is None.
BeamReturnsBestSeen ==
    (alg = "beam" /\ pc \in {"beam_loop", "done"}) =>
        IF FeasibleSeen = {}
        THEN best = Some(start) /\ bestobj = None
        ELSE \E i \in FeasibleSeen :
                /\ EarliestBestSeen(i)
                /\ best = Some(seen[i])
                /\ bestobj = Objective(seen[i])

\* a call returns a solution of a round before the last, which ties with a
\* feasible solution met later and is better than the feasible initial one
BeamReturnsBestSeenWitness ==
    /\ alg = "beam" /\ pc = "done" /\ bw = 2
    /\ 1 \in FeasibleSeen
    /\ \E i, j \in FeasibleSeen :
          /\ 1 < i /\ i < j
          /\ PathCost(seen[i], 1) = PathCost(seen[j], 1)
          /\ best = Some(seen[i])
          /\ Len(seen[i]) < Len(seen[Len(seen)])

----------------------------------------------------------------------------
(* greedy_construction: the component of a step *)

\* positions in add_moves order of the addable components with a defined increment
DefinedMoves(p) ==
    {i \in 1..Len(AddMoves(p)) : ~IsNone(LowerBoundIncrAdd(p, AddMoves(p)[i]))}

\* the i-th addable component has the least defined increment and is the first
\* of those that have it
FirstMinimal(p, i) ==
    /\ i \in DefinedMoves(p)
    /\ \A j \in DefinedMoves(p) :
          LET ii == Val(LowerBoundIncrAdd(p, AddMoves(p)[i]))
              jj == Val(LowerBoundIncrAdd(p, AddMoves(p)[j]))
          IN ii < jj \/ (ii = jj /\ i <= j)

\* C16: at every step of greedy_construction the component added is the
\* first one in add_moves order whose defined increment is minimal among the
\* addable components with a defined increment; the loop stops, leaving the
\* solution as it is, exactly when no addable component has a defined increment.
GreedyAddsFirstMinimal ==
    [][pc = "greedy_loop" =>
        IF DefinedMoves(gsol) = {}
        THEN gsol' = gsol /\ pc' # "greedy_loop"
        ELSE /\ pc' = "greedy_loop"
             /\ \E i \in DefinedMoves(gsol) :
                   /\ FirstMinimal(gsol, i)
                   /\ gsol' = Add(gsol, AddMoves(gsol)[i])]_vars

\* greedy has passed over a component without increment and taken the first of
\* two components of equal increment, and then stopped with the component
\* without increment still addable
GreedyAddsFirstMinimalWitness ==
    /\ alg = "beam" /\ pc = "beam_enter"
    /\ prob.n = 3
    /\ IsNone(prob.incr[1]) /\ ~IsNone(prob.incr[2]) /\ prob.incr[2] = prob.incr[3]
    /\ gsol = <<2, 3>>

----------------------------------------------------------------------------
(* grasp: the restricted candidate list over floating-point increments *)

\* Increments and alpha are floats.  Floats are modelled as binary
\* floating-point numbers with a short significand, rounded to nearest, ties to
\* even, as IEEE 754 does with its 53 bits; values are exact rationals.

\* the significands of a normalised float, as integers
FloatMantissas == {4, 5, 6, 7}
MantissaMin == CHOOSE v \in FloatMantissas : \A u \in FloatMantissas : v <= u
MantissaMax == CHOOSE v \in FloatMantissas : \A u \in FloatMantissas : v >= u

\* round a non-negative rational to the nearest integer, ties to even
RoundHalfEven(q) ==
    LET fl == q[1] \div q[2]
        twice == 2 * (q[1] - fl * q[2])
    IN IF twice > q[2] \/ (twice = q[2] /\ fl % 2 = 1) THEN fl + 1 ELSE fl

\* the float nearest to a non-negative rational
RECURSIVE FRound(_)
FRound(q) ==
    IF q[1] = 0 THEN RInt(0)
    ELSE IF RLt(q, RInt(MantissaMin)) THEN RMul(FRound(RMul(q, RInt(2))), <<1, 2>>)
    ELSE IF RLe(RInt(MantissaMax + 1), q) THEN RMul(FRound(RMul(q, <<1, 2>>)), RInt(2))
    ELSE RInt(RoundHalfEven(q))

\* float subtraction, multiplication and addition
FSub(u, w) == FRound(RAdd(u, RMul(RInt(-1), w)))
FMul(u, w) == FRound(RMul(u, w))
FAdd(u, w) == FRound(RAdd(u, w))

\* largest number of candidates of a selection
MaxCands == 3
\* the increments of the candidates, each of them a float
FloatIncrs == {<<1, 2>>, <<1, 1>>, <<7, 4>>, <<4, 1>>, <<5, 1>>}
\* the values of alpha
FloatAlphas == {<<0, 1>>, <<1, 2>>, <<1, 1>>}

\* C for a solution with nn addable components, component i having increment f[i]
CandidateLists ==
    UNION {{[i \in 1..nn |-> [decr |-> f[i], c |-> i]] : f \in [1..nn -> FloatIncrs]} :
             nn \in 0..MaxCands}

\* cmin = min(C, key=itemgetter(0))[0] and cmax likewise
FloatCMin(cl) == CHOOSE v \in {cl[i].decr : i \in 1..Len(cl)} :
                     \A i \in 1..Len(cl) : RLe(v, cl[i].decr)
FloatCMax(cl) == CHOOSE v \in {cl[i].decr : i \in 1..Len(cl)} :
                     \A i \in 1..Len(cl) : RLe(cl[i].decr, v)

\* thresh = cmin + alpha * (cmax - cmin), each operation rounded
FloatThresh(cl, al) == FAdd(FloatCMin(cl), FMul(al, FSub(FloatCMax(cl), FloatCMin(cl))))

\* RCL = [c for decr, c in C if decr <= thresh], as positions of C
FloatRCL(cl, al) == {i \in 1..Len(cl) : RLe(cl[i].decr, FloatThresh(cl, al))}

otherThanSel == <<lcgVars, probVars, workVars, beamVars, graspVars, mmasVars, lsVars,
                  printVars, descVars, expired>>

InitSel ==
    /\ alg = "grasp_select"
    /\ pc = "sel_loop"
    /\ err = ""
    /\ expired = FALSE
    /\ IdleLcg /\ IdleProb /\ IdleWork /\ IdleBeam /\ IdleGrasp /\ IdleMmas /\ IdleLs
    /\ IdlePrinting /\ IdleDesc
    /\ clist \in CandidateLists
    /\ alpha \in FloatAlphas
    /\ rcl = <<>>
    /\ choice = None

\* one turn of `while len(C) != 0': the threshold, the RCL, random.choice and
\* the add, after which the component added is no longer in C
SelAdd ==
    /\ alg = "grasp_select" /\ pc = "sel_loop"
    /\ clist # <<>>
    /\ rcl' = [i \in 1..Cardinality(FloatRCL(clist, alpha)) |->
                 clist[CHOOSE j \in FloatRCL(clist, alpha) :
                         Cardinality({k \in FloatRCL(clist, alpha) : k < j}) = i - 1].c]
    /\ IF FloatRCL(clist, alpha) = {}
       THEN /\ pc' = "raised"
            /\ err' = "IndexError"
            /\ UNCHANGED <<clist, choice>>
       ELSE /\ \E i \in FloatRCL(clist, alpha) :
                 /\ choice' = Some(clist[i])
                 /\ clist' = RemoveAt(clist, i)
            /\ UNCHANGED <<pc, err>>
    /\ UNCHANGED <<alg, alpha, otherThanSel>>

\* len(C) == 0: the construction of the repetition is over
SelDone ==
    /\ alg = "grasp_select" /\ pc = "sel_loop"
    /\ clist = <<>>
    /\ pc' = "sel_done"
    /\ UNCHANGED <<alg, err, clist, alpha, rcl, choice, otherThanSel>>

NextSel == SelAdd \/ SelDone

SpecSel == InitSel /\ [][NextSel]_vars

\* cmin + alpha * (cmax - cmin) over the rationals
ExactThresh(cl, al) ==
    RAdd(FloatCMin(cl), RMul(al, RAdd(FloatCMax(cl), RMul(RInt(-1), FloatCMin(cl)))))

\* C17: for 0 <= alpha <= 1 every component grasp adds has, just before the
\* add, an increment <= min + alpha * (max - min) over the increments of the
\* addable components; the restricted candidate list is never empty while add
\* moves exist, and with alpha = 1 it contains every addable component.
AddedWithinThreshold ==
    [][(alg = "grasp_select" /\ pc = "sel_loop" /\ clist # <<>>) =>
        /\ rcl' # <<>>
        /\ ~IsNone(choice') /\ RLe(Val(choice').decr, ExactThresh(clist, alpha))
        /\ (alpha = RInt(1) => Range(rcl') = {clist[i].c : i \in 1..Len(clist)})]_vars

----------------------------------------------------------------------------
(* grasp: the incumbent across repetitions *)

\* C18: throughout a run of grasp, and so when it returns, best is None
\* exactly when bestobj is None, and otherwise best is feasible and bestobj is
\* its objective (the objective of the best repetition incumbent after the
\* optional local search), for any local_search function the signature admits.
GraspBestConsistent ==
    alg = "grasp" =>
        /\ IsNone(best) <=> IsNone(bestobj)
        /\ ~IsNone(best) => IsFeasible(Val(best)) /\ Objective(Val(best)) = bestobj

----------------------------------------------------------------------------
(* construct_ant: the priority of the zero-increment components *)

\* the addable components of p whose increment is close to 0
ZeroMoves(p) == {k \in Range(AddMoves(p)) : IsClose(Val(LowerBoundIncrAdd(p, k)), 0)}

\* every component of the path q added after from was a zero-increment
\* component whenever one was addable at that step
ZeroFirst(from, q) ==
    \A i \in Len(from)..(Len(q) - 1) :
        ZeroMoves(SubSeq(q, 1, i)) # {} => q[i + 1] \in ZeroMoves(SubSeq(q, 1, i))

\* a call of construct_ant is about to be made
AntCall ==
    /\ alg \in {"mmas", "ant_system"}
    /\ pc \in {"mmas_ant", "as_ant"}
    /\ antIdx <= nants

\* C19: at every step of construct_ant, in ant_system and in mmas, at which a
\* component with an increment close to 0 is addable, the component added is
\* one of those, whatever the trails; a component with another increment is
\* added only when no such component is addable, and the construction stops
\* only when add_moves is empty.
ZeroIncrementFirst ==
    AntCall =>
        \A run \in ConstructAnt(start, tau, tau0, {}) :
            ~run[1] => /\ ZeroFirst(start, run[2])
                       /\ AddMoves(run[2]) = <<>>

\* after a pheromone update an ant was built whose first component has
\* increment 0 while a component with another increment, and a trail that is
\* no longer the default, was addable
ZeroIncrementFirstWitness ==
    /\ alg \in {"mmas", "ant_system"} /\ ls = "none" /\ iter >= 2
    /\ prob.n = 2 /\ prob.incr[1] = Some(0) /\ prob.incr[2] # Some(0)
    /\ 2 \in DOMAIN tau /\ tau[2] # tau0
    /\ Len(ants) >= 1 /\ Len(ants[Len(ants)]) >= 1 /\ ants[Len(ants)][1] = 1

----------------------------------------------------------------------------
(* ant_system: the pheromone update *)

\* the sum of 1 / objective over the feasible ants, from the i-th on, whose
\* components contain k
RECURSIVE DepositSum(_, _)
DepositSum(k, i) ==
    IF i > Len(ants) THEN RInt(0)
    ELSE IF IsFeasible(ants[i]) /\ k \in Components(ants[i])
         THEN RAdd(RDiv(RInt(1), RInt(PathCost(ants[i], 1))), DepositSum(k, i + 1))
         ELSE DepositSum(k, i + 1)

\* the component identities of the problem
ComponentIds == 1..prob.n

\* a pheromone update of ant_system that completes
AsUpdateStep == alg = "ant_system" /\ pc = "as_update" /\ pc' = "as_loop"

\* C20: after each pheromone update of ant_system the trail of every component
\* identity is (1 - rho) times its trail before, the default standing for an
\* identity not in the table, plus the sum of 1 / objective over the feasible
\* ants of the iteration whose components contain it; the default becomes
\* (1 - rho) times its value before, and infeasible ants change nothing.
AsUpdateRule ==
    [][AsUpdateStep =>
        /\ tau0' = RMul(RAdd(RInt(1), RMul(RInt(-1), Rho)), tau0)
        /\ \A k \in ComponentIds :
              TauRead(tau', tau0', k) =
                  RAdd(RMul(RAdd(RInt(1), RMul(RInt(-1), Rho)), TauRead(tau, tau0, k)),
                       DepositSum(k, 1))
        /\ DOMAIN tau' = DOMAIN tau \cup
              UNION {Components(ants[i]) : i \in {j \in 1..Len(ants) : IsFeasible(ants[j])}}]_vars

\* an update has been made in which two ants reinforced the same component
\* while another component was left to evaporate
AsUpdateRuleWitness ==
    /\ alg = "ant_system" /\ pc = "as_loop" /\ iter >= 1 /\ nants = 2
    /\ prob.n = 2
    /\ \E j, k \in DOMAIN tau :
          /\ tau[j] = tau0
          /\ RLt(RAdd(tau0, RInt(1)), tau[k])

----------------------------------------------------------------------------
(* mmas: the solution that reinforces the trails *)

\* a pheromone update of mmas that completes without reinitialization
MmasReinforceStep ==
    alg = "mmas" /\ pc = "mmas_update" /\ pc' = "mmas_loop" /\ ni < nrestart

\* the feasible ants of the iteration whose objective is the smallest, the
\* first of them in colony order only
IterationBest ==
    {ants[i] : i \in {j \in 1..Len(ants) :
        /\ \A h \in 1..Len(ants) : Val(Objective(ants[j])) <= Val(Objective(ants[h]))
        /\ \A h \in 1..(j - 1) : Val(Objective(ants[h])) # Val(Objective(ants[j]))}}

\* the solutions that may reinforce: the global best and the iteration best
Reinforcers == (IF IsNone(best) THEN {} ELSE {Val(best)}) \cup IterationBest

\* the trail of k after evaporation, within the limits of the update
Decayed(k) ==
    RMax(taumin', RMin(taumax', RMul(RAdd(RInt(1), RMul(RInt(-1), Rho)),
                                      TauRead(tau, tau0, k))))

\* C21: in every non-restart pheromone update of mmas one solution at most
\* reinforces the trails, the global best or the first feasible ant of the
\* iteration with the smallest objective; the global best when the iteration
\* has no feasible ant; the trail of a component of no other solution is the
\* evaporated one.
MmasSingleReinforcer ==
    [][MmasReinforceStep =>
        \E r \in Reinforcers :
            /\ Len(ants) = 0 => r = Val(best)
            /\ \A k \in ComponentIds :
                  TauRead(tau', tau0', k) =
                      IF k \in Components(r)
                      THEN RMin(taumax', RAdd(Decayed(k),
                                              RDiv(RInt(1), RInt(Val(Objective(r))))))
                      ELSE Decayed(k)]_vars

\* an update is due after an iteration whose two feasible ants tie on the
\* objective and differ in their components
MmasSingleReinforcerWitness ==
    /\ alg = "mmas" /\ pc = "mmas_update" /\ ni < nrestart /\ UpdateError = ""
    /\ Len(ants) = 2
    /\ Objective(ants[1]) = Objective(ants[2])
    /\ Components(ants[1]) # Components(ants[2])

----------------------------------------------------------------------------
(* mmas: the stagnation counter and the reinitialization *)

\* the number of iterations at the end of the history h that did not replace
\* the global best
RECURSIVE TrailingUnimproved(_)
TrailingUnimproved(h) ==
    IF h = <<>> \/ h[Len(h)] THEN 0
    ELSE 1 + TrailingUnimproved(SubSeq(h, 1, Len(h) - 1))

\* a pheromone update of mmas that completes
MmasUpdateStep == alg = "mmas" /\ pc = "mmas_update" /\ pc' = "mmas_loop"

\* the update of the step evaporated every trail and reinforced the solution r
EvaporatedAndReinforced(r) ==
    \A k \in ComponentIds :
        TauRead(tau', tau0', k) =
            IF k \in Components(r)
            THEN RMin(taumax', RAdd(Decayed(k), RDiv(RInt(1), RInt(Val(Objective(r))))))
            ELSE Decayed(k)

\* the update of the step set the default and every trail to 1 / bestobj
Reinitialized ==
    /\ taumax' = RDiv(RInt(1), RInt(Val(bestobj)))
    /\ tau0' = taumax'
    /\ \A k \in ComponentIds : TauRead(tau', tau0', k) = taumax'
    /\ DOMAIN tau' = DOMAIN tau

\* C22: at each pheromone update of mmas the stagnation counter is the number
\* of consecutive iterations, the current one included, that did not improve
\* the global best; below nrestart the update evaporates and reinforces, from
\* nrestart on it sets every trail and the default to taumax = 1 / bestobj.
StagnationCounterRule ==
    /\ [](alg = "mmas" /\ pc = "mmas_update" => ni = TrailingUnimproved(improved))
    /\ [][MmasUpdateStep =>
            IF ni < nrestart THEN \E r \in Reinforcers : EvaporatedAndReinforced(r)
            ELSE Reinitialized]_vars

\* an update is due with the counter at nrestart, after an iteration that
\* improved the best and one that did not, while a trail differs from
\* 1 / bestobj
StagnationCounterRuleWitness ==
    /\ alg = "mmas" /\ pc = "mmas_update" /\ UpdateError = ""
    /\ improved = <<TRUE, FALSE>>
    /\ ni = 1 /\ ni >= nrestart
    /\ \E k \in DOMAIN tau : tau[k] # RDiv(RInt(1), RInt(Val(bestobj)))

----------------------------------------------------------------------------
(* mmas: the updates that follow a reinitialization *)

\* the counter had reached nrestart at the update of the iteration before the
\* current one
ReachedBefore ==
    /\ Len(improved) >= 2
    /\ TrailingUnimproved(SubSeq(improved, 1, Len(improved) - 1)) >= nrestart

\* C29, as stated: once the counter has reached nrestart the update of the
\* next iteration reinitializes too, normal evaporation resuming only in the
\* iteration after one that improved the global best.
ReinitUntilAfterImprovement ==
    [][(MmasUpdateStep /\ ReachedBefore) => Reinitialized]_vars

\* C29, amended: an update never changes the stagnation counter; once the
\* counter has reached nrestart, the update of a following iteration that
\* does not improve the global best reinitializes again, and the update of
\* the first following iteration that improves it, the counter being 0,
\* evaporates and reinforces.
ReinitUntilImprovement ==
    [][(MmasUpdateStep /\ ReachedBefore) =>
        /\ ni' = ni
        /\ IF improved[Len(improved)]
           THEN ni = 0 /\ \E r \in Reinforcers : EvaporatedAndReinforced(r)
           ELSE ni > nrestart /\ Reinitialized]_vars

\* an update is due in an iteration that improved the global best, after one
\* whose update reinitialized the trails
ReinitUntilImprovementWitness ==
    /\ alg = "mmas" /\ pc = "mmas_update" /\ UpdateError = ""
    /\ improved = <<TRUE, FALSE, TRUE>>
    /\ nrestart = 1 /\ a > 1
    /\ DOMAIN tau # {}

----------------------------------------------------------------------------
(* ant_system and mmas: the solution returned *)

InitAnts == InitMmas \/ InitAs

NextAnts == NextMmas \/ NextAs

SpecAnts == InitAnts /\ [][NextAnts]_vars

\* C23: a solution returned by ant_system or mmas is feasible and its
\* objective, the one stored with it, is at most the objective of every
\* feasible ant seen during the run, as constructed and as returned by the
\* local search; what the local search does to an ant afterwards leaves the
\* stored best as it was.
AntsReturnBest ==
    (alg \in {"ant_system", "mmas"} /\ pc = "done" /\ ~IsNone(best)) =>
        /\ IsFeasible(Val(best))
        /\ Objective(Val(best)) = bestobj
        /\ \A o \in observed : Val(bestobj) <= o

\* a run with a local search has returned an ant as it was constructed,
\* which the local search then made worse
AntsReturnBestWitness ==
    /\ alg \in {"ant_system", "mmas"} /\ pc = "done" /\ ls = "any"
    /\ ~IsNone(best)
    /\ Cardinality(observed) >= 2
    /\ Val(Objective(AntLocalSearch(Val(best)))) > Val(bestobj)

----------------------------------------------------------------------------
(* ant_system and mmas: the trails during the construction phase *)

\* a turn of the loop over the solutions, in which an ant may be constructed
AntPhaseStep == alg \in {"ant_system", "mmas"} /\ pc \in {"as_ant", "mmas_ant"}

\* C24: during the construction phase the trail read for a component
\* identity does not change, an identity not in the table reading as the
\* current default; and an identity that no reinforcement has touched has a
\* trail equal to the current default.
TrailsFixedInConstruction ==
    /\ [][AntPhaseStep =>
            /\ tau0' = tau0
            /\ \A k \in ComponentIds : TauRead(tau', tau0', k) = TauRead(tau, tau0, k)]_vars
    /\ [](alg \in {"ant_system", "mmas"} =>
            \A k \in ComponentIds \ reinforced : TauRead(tau, tau0, k) = tau0)

\* in a later iteration an ant has been constructed while the table held an
\* identity never reinforced, next to a reinforced one whose trail is not the
\* default, the default being no longer the initial one
TrailsFixedInConstructionWitness ==
    /\ alg \in {"ant_system", "mmas"} /\ pc \in {"as_ant", "mmas_ant"}
    /\ iter >= 2 /\ Len(ants) >= 1
    /\ tau0 # RInt(1)
    /\ \E k \in DOMAIN tau : k \notin reinforced
    /\ \E k \in DOMAIN tau : k \in reinforced /\ tau[k] # tau0

----------------------------------------------------------------------------
(* best_improvement: the move a round applies *)

\* a round of best_improvement applies a step
BiStepApplied == alg = "best_improvement" /\ steps' = steps + 1

\* the least objective_incr_local over the local moves of s
MinIncr(s) ==
    CHOOSE v \in {ObjectiveIncrLocal(s, LocalMoves(s)[i]) : i \in 1..Len(LocalMoves(s))} :
        \A i \in 1..Len(LocalMoves(s)) : v <= ObjectiveIncrLocal(s, LocalMoves(s)[i])

\* C26: a round of best_improvement that applies a step has scanned all the
\* local moves, and the move applied has the least objective_incr_local of
\* them, which is negative and not close to 0.
BiAppliesRoundMinimum ==
    [][BiStepApplied =>
        /\ scan = <<>>
        /\ ObjectiveIncrLocal(work, Val(bestMove)) = MinIncr(work)
        /\ MinIncr(work) < 0 /\ ~IsClose(MinIncr(work), 0)]_vars

----------------------------------------------------------------------------
(* 3dprinting.py: Solution.random_local_moves_wor *)

\* largest length of the path of the solution whose moves are enumerated
MaxPath == 4

\* a pair (i, j) derived with m + 1 in the place of m
Sample2PairWide(v, mm) == <<v \div (mm + 1), v % (mm + 1)>>

\* sample2: i = v // m, j = v % m
Sample2Pair(v, mm) == <<v \div mm, v % mm>>

\* `if j > i'
WorKeeps(mv) == mv[2] > mv[1]

\* the moves random_local_moves_wor has yielded when sample2(len - 1, len - 1)
\* has drawn the values vs from non_repeating_lcg
RandomLocalMovesWor(vs, len) ==
    SelectSeq([k \in 1..Len(vs) |-> Sample2Pair(vs[k], len - 1)], WorKeeps)

\* a solution whose path holds the items 0..len-1
SolutionWithPath(len) ==
    [path |-> [i \in 1..len |-> i - 1], used |-> [list |-> FALSE, items |-> 0..(len - 1)],
     unused |-> {}, cost |-> 0, time_spent |-> 0]

\* random_local_moves_wor is called: sample2(len - 1, len - 1) starts
\* non_repeating_lcg((len - 1) * (len - 1))
InitWor ==
    /\ alg = "random_local_moves_wor"
    /\ err = ""
    /\ expired = FALSE
    /\ IdleProb /\ IdleWork /\ IdleBeam /\ IdleGrasp /\ IdleMmas /\ IdleLs /\ IdleSel /\ IdleDesc
    /\ inst = <<>>
    /\ \E len \in 2..MaxPath :
          /\ pprob = [n_items |-> len, attrs |-> {"n_items"}]
          /\ psol = SolutionWithPath(len)
          /\ n = (len - 1) * (len - 1)
    /\ out = <<>>
    /\ cnt = 0
    /\ m = LcgModulus(n)
    /\ IF m > 1
       THEN /\ c \in LcgIncrements(m)
            /\ x \in LcgStarts(m)
            /\ pc = "lcg_loop"
       ELSE /\ c = 0
            /\ x = 0
            /\ pc = "lcg_one"

SpecWor == InitWor /\ [][NextLcg]_vars

\* C28: on a path of length len >= 2, random_local_moves_wor yields only
\* pairs (i, j) with 0 <= i < j <= len - 2, each derived from one index of
\* the (len - 1)^2 linear space, none twice, and when the enumeration ends
\* it has yielded exactly the moves of local_moves().
WorEnumeratesLocalMoves ==
    alg = "random_local_moves_wor" =>
        LET len == Len(psol.path)
            ys == RandomLocalMovesWor(out, len)
        IN /\ \A h \in 1..Len(out) : out[h] \in 0..((len - 1) * (len - 1) - 1)
           /\ \A h \in 1..Len(ys) : 0 <= ys[h][1] /\ ys[h][1] < ys[h][2] /\ ys[h][2] <= len - 2
           /\ \A h, k \in 1..Len(ys) : h # k => ys[h] # ys[k]
           /\ Range(ys) \subseteq PrintingLocalMoves(psol)
           /\ pc = "done" => Range(ys) = PrintingLocalMoves(psol)

\* the enumeration of the three moves of a path of length 4 has ended, the
\* first value drawn having given no move
WorEnumeratesLocalMovesWitness ==
    /\ alg = "random_local_moves_wor" /\ pc = "done"
    /\ Len(psol.path) = 4
    /\ Len(RandomLocalMovesWor(out, 4)) = 3
    /\ ~WorKeeps(Sample2Pair(out[1], 3))

----------------------------------------------------------------------------
(* first_improvement and rls *)

\* a step is applied for every increment that is not positive
FiAppliesNonWorsening(incr) == incr <= 0

\* first_improvement: `if incr < 0 and not isclose(incr, 0)'
FiApplies(incr) == incr < 0 /\ ~IsClose(incr, 0)

\* rls: `if delta < 0 or isclose(delta, 0.0)'
RlsApplies(delta) == delta < 0 \/ IsClose(delta, 0)

\* the test of the entry point that is running
DescentApplies(incr) == IF alg = "rls" THEN RlsApplies(incr) ELSE FiApplies(incr)

\* the number of steps applied, counted as far as the history goes
StepCount == IF steps < MaxVisits THEN steps + 1 ELSE steps

\* the entry point name is called with a budget of the kind bud
InitDescent(name, bud) ==
    /\ alg = name
    /\ pc = "fi_loop"
    /\ err = ""
    /\ expired = FALSE
    /\ IdleLcg /\ IdleProb /\ IdleBeam /\ IdleGrasp /\ IdleMmas /\ IdleWork
    /\ IdlePrinting /\ IdleSel
    /\ budget = bud /\ move = None /\ initTemp = 0
    /\ land \in Landscapes
    /\ arg \in 1..land.nsol
    /\ work = arg
    /\ visited = <<arg>>
    /\ kick = 0
    /\ scan = <<>>
    /\ bestIncr = 0
    /\ bestMove = None
    /\ steps = 0
    /\ rets = <<>>

InitFi == InitDescent("first_improvement", "finite")

otherThanDescent ==
    <<lcgVars, probVars, beamVars, graspVars, mmasVars, printVars, selVars, workVars,
      land, arg, bestIncr, bestMove, kick, budget, move, initTemp>>

\* the check of the while loop finds time left: a scan of
\* random_local_moves_wor starts
FiRound ==
    /\ alg \in {"first_improvement", "rls"}
    /\ pc = "fi_loop"
    /\ ~expired
    /\ budget = "never" \/ steps < MaxRounds
    /\ scan' = LocalMoves(work)
    /\ pc' = "fi_scan"
    /\ UNCHANGED <<alg, err, expired, work, steps, rets, visited>>
    /\ UNCHANGED otherThanDescent

\* the check of the while loop finds the budget expired
FiExpired ==
    /\ alg \in {"first_improvement", "rls"}
    /\ pc = "fi_loop"
    /\ budget = "finite"
    /\ expired' = TRUE
    /\ rets' = Append(rets, Returned(work, "budget"))
    /\ pc' = "done"
    /\ UNCHANGED <<alg, err, work, scan, steps, visited>>
    /\ UNCHANGED otherThanDescent

\* the scan yields one more move, any of those not yet yielded: a move that
\* passes the test is applied and ends the scan; after any other move the
\* clock is read
FiScan ==
    /\ alg \in {"first_improvement", "rls"}
    /\ pc = "fi_scan"
    /\ scan # <<>>
    /\ \E i \in 1..Len(scan) :
          IF DescentApplies(ObjectiveIncrLocal(work, scan[i]))
          THEN /\ work' = Step(work, scan[i])
               /\ visited' = Visit(Step(work, scan[i]))
               /\ steps' = StepCount
               /\ scan' = <<>>
               /\ pc' = "fi_loop"
               /\ UNCHANGED <<expired, rets>>
          ELSE \/ /\ budget = "finite"
                  /\ expired' = TRUE
                  /\ rets' = Append(rets, Returned(work, "budget"))
                  /\ pc' = "done"
                  /\ UNCHANGED <<work, steps, scan, visited>>
               \/ /\ scan' = RemoveAt(scan, i)
                  /\ UNCHANGED <<pc, expired, work, steps, rets, visited>>
    /\ UNCHANGED <<alg, err>>
    /\ UNCHANGED otherThanDescent

\* the else clause of the scan: no move passed the test, the call returns
FiLocalOptimum ==
    /\ alg \in {"first_improvement", "rls"}
    /\ pc = "fi_scan"
    /\ scan = <<>>
    /\ rets' = Append(rets, Returned(work, "optimum"))
    /\ pc' = "done"
    /\ UNCHANGED <<alg, err, expired, work, scan, steps, visited>>
    /\ UNCHANGED otherThanDescent

NextFi == FiRound \/ FiExpired \/ FiScan \/ FiLocalOptimum

SpecFi == InitFi /\ [][NextFi]_vars

\* first_improvement applies a step
FiStepApplied == alg = "first_improvement" /\ pc = "fi_scan" /\ work' # work

\* the moves the current scan has yielded before the one it is at
YieldedBefore == Range(LocalMoves(work)) \ Range(scan)

\* C25: every step first_improvement applies has an increment that is
\* negative and not close to 0, and no move the scan yielded before it had
\* one; when the call returns from a scan that came to its end, no local
\* move of the returned solution has such an increment.
FiAppliesFirstImproving ==
    /\ [][FiStepApplied =>
            /\ LsObjective(work') - LsObjective(work) < 0
            /\ ~IsClose(LsObjective(work') - LsObjective(work), 0)
            /\ \A mv \in YieldedBefore :
                  ~(ObjectiveIncrLocal(work, mv) < 0 /\ ~IsClose(ObjectiveIncrLocal(work, mv), 0))]_vars
    /\ [](alg = "first_improvement" /\ pc = "done" /\ rets[1].exit = "optimum" =>
            \A mv \in Range(LocalMoves(rets[1].sol)) :
                ~(ObjectiveIncrLocal(rets[1].sol, mv) < 0
                  /\ ~IsClose(ObjectiveIncrLocal(rets[1].sol, mv), 0)))

\* a call has applied a step after a move that did not improve, and has
\* returned from a complete scan of the solution reached
FiAppliesFirstImprovingWitness ==
    /\ alg = "first_improvement" /\ pc = "done"
    /\ rets[1].exit = "optimum" /\ rets[1].steps = 1
    /\ land.nsol = 3 /\ arg = 2
    /\ LsObjective(1) >= LsObjective(2) /\ LsObjective(3) < LsObjective(2)

----------------------------------------------------------------------------
(* sa *)

\* the values of init_temp
InitTemps == {-1, 0, 1}

\* the sign of 1 - (perf_counter() - start) / budget at a read of the clock:
\* once the clock has passed the budget it stays past it
Remainders == IF expired THEN {-1} ELSE {-1, 0, 1}

\* LinearDecay.__call__
LinearDecay(t) == t * initTemp

\* only improving moves are accepted with certainty
AlwaysAcceptedStrict(incr) == incr < 0

\* ExponentialAcceptance.__call__ returns 1.0, which no value of
\* random.random() exceeds
AlwaysAccepted(incr) == incr <= 0

\* the outcomes of `acceptance(incr, t) >= random.random()'
Accepts(incr) == IF AlwaysAccepted(incr) THEN {TRUE} ELSE {TRUE, FALSE}

InitSa ==
    /\ alg = "sa"
    /\ pc = "sa_loop"
    /\ err = ""
    /\ expired = FALSE
    /\ IdleLcg /\ IdleProb /\ IdleBeam /\ IdleGrasp /\ IdleMmas
    /\ IdlePrinting /\ IdleSel
    /\ budget = "finite" /\ move = None
    /\ initTemp \in InitTemps
    /\ land \in Landscapes
    /\ arg \in 1..land.nsol
    /\ work = arg
    /\ visited = <<arg>>
    /\ sol = <<>>
    /\ best = Some(arg)
    /\ bestobj = Some(LsObjective(arg))
    /\ iter = 0
    /\ kick = 0
    /\ scan = <<>>
    /\ bestIncr = 0
    /\ bestMove = None
    /\ steps = 0
    /\ rets = <<>>

otherThanSa ==
    <<lcgVars, probVars, beamVars, graspVars, mmasVars, printVars, selVars,
      sol, land, arg, bestIncr, bestMove, kick, budget, initTemp>>

\* the check of the while loop finds time left: a scan starts
SaRound ==
    /\ alg = "sa"
    /\ pc = "sa_loop"
    /\ ~expired
    /\ iter < MaxRounds
    /\ iter' = iter + 1
    /\ scan' = LocalMoves(work)
    /\ pc' = "sa_for"
    /\ UNCHANGED <<alg, err, expired, work, steps, rets, visited, move, best, bestobj>>
    /\ UNCHANGED otherThanSa

\* the check of the while loop finds the budget expired: best is returned
SaExpired ==
    /\ alg = "sa"
    /\ pc = "sa_loop"
    /\ expired' = TRUE
    /\ rets' = Append(rets, Returned(Val(best), "budget"))
    /\ pc' = "done"
    /\ UNCHANGED <<alg, err, work, scan, steps, visited, move, best, bestobj, iter>>
    /\ UNCHANGED otherThanSa

\* the scan yields its next move, or ends
SaYield ==
    /\ alg = "sa"
    /\ pc = "sa_for"
    /\ IF scan = <<>>
       THEN pc' = "sa_loop" /\ UNCHANGED <<scan, move>>
       ELSE \E i \in 1..Len(scan) :
               /\ move' = Some(scan[i])
               /\ scan' = RemoveAt(scan, i)
               /\ pc' = "sa_body"
    /\ UNCHANGED <<alg, err, expired, work, steps, rets, visited, best, bestobj, iter>>
    /\ UNCHANGED otherThanSa

\* the body of the for loop, for the move yielded
SaBody ==
    /\ alg = "sa"
    /\ pc = "sa_body"
    /\ \E r \in Remainders :
          /\ expired' = (r <= 0)
          /\ IF LinearDecay(r) <= 0
             THEN /\ pc' = "sa_loop"
                  /\ scan' = <<>>
                  /\ UNCHANGED <<work, steps, visited, best, bestobj>>
             ELSE \E accept \in Accepts(ObjectiveIncrLocal(work, Val(move))) :
                     IF accept
                     THEN /\ work' = Step(work, Val(move))
                          /\ visited' = Visit(Step(work, Val(move)))
                          /\ steps' = StepCount
                          /\ IF IsNone(bestobj) \/ LsObjective(Step(work, Val(move))) < Val(bestobj)
                             THEN /\ best' = Some(Step(work, Val(move)))
                                  /\ bestobj' = Some(LsObjective(Step(work, Val(move))))
                             ELSE UNCHANGED <<best, bestobj>>
                          /\ pc' = "sa_loop"
                          /\ scan' = <<>>
                     ELSE /\ pc' = "sa_for"
                          /\ UNCHANGED <<work, steps, visited, best, bestobj, scan>>
    /\ move' = None
    /\ UNCHANGED <<alg, err, rets, iter>>
    /\ UNCHANGED otherThanSa

NextSa == SaRound \/ SaExpired \/ SaYield \/ SaBody

SpecSa == InitSa /\ [][NextSa]_vars

\* the body of the for loop runs
SaBodyStep == alg = "sa" /\ pc = "sa_body" /\ pc' # "sa_body"

\* C27: what sa returns has an objective no larger than that of the input
\* and of every solution the working solution has been; a move of increment
\* <= 0 that is yielded at a positive temperature is applied; at a
\* temperature <= 0 the working solution stays as it is and the scan ends.
SaReturnsBestSeen ==
    /\ [](alg = "sa" /\ pc = "done" =>
            \A i \in 1..Len(visited) : LsObjective(rets[1].sol) <= LsObjective(visited[i]))
    /\ [][SaBodyStep /\ initTemp > 0 /\ ~expired'
            /\ ObjectiveIncrLocal(work, Val(move)) <= 0
          => work' = Step(work, Val(move))]_vars
    /\ [][SaBodyStep /\ (initTemp = 0 \/ (initTemp > 0 /\ expired') \/ (initTemp < 0 /\ ~expired'))
          => work' = work /\ scan' = <<>> /\ pc' = "sa_loop"]_vars

\* sa went to a worse solution and returned the better one it had left
SaReturnsBestSeenWitness ==
    /\ alg = "sa" /\ pc = "done"
    /\ Len(visited) = 3
    /\ LsObjective(visited[2]) < LsObjective(visited[1])
    /\ LsObjective(visited[3]) > LsObjective(visited[2])
    /\ rets[1].sol = visited[2]
    /\ work = visited[3]

----------------------------------------------------------------------------
(* the descents under a budget that never expires *)

InitForever ==
    \/ InitBiWith("never")
    \/ InitDescent("first_improvement", "never")
    \/ InitDescent("rls", "never")

\* without an expiry the checks of the clock always find time left
NextForever ==
    BiRound \/ BiScan \/ BiApply \/ BiCallAgain \/ FiRound \/ FiScan \/ FiLocalOptimum

\* the interpreter keeps running the loop it is in
SpecForever == InitForever /\ [][NextForever]_vars /\ WF_vars(NextForever)

Strict == alg \in {"best_improvement", "first_improvement"}

\* no move of the landscape has increment 0
NoZeroIncrement ==
    \A s \in 1..land.nsol : \A mv \in Range(LocalMoves(s)) : ObjectiveIncrLocal(s, mv) # 0

\* the history holds some solution twice
Revisited == \E i, j \in 1..Len(visited) : i < j /\ visited[i] = visited[j]

\* the history holds a step of increment 0
ZeroStepTaken ==
    \E i \in 1..(Len(visited) - 1) : LsObjective(visited[i + 1]) = LsObjective(visited[i])

\* C30: under a budget that never expires best_improvement and
\* first_improvement end; each step they apply strictly decreases the
\* objective, they work on no solution twice, and what they return has no
\* strictly improving move. rls works on a solution again only after a step
\* of increment 0, and ends on the landscapes that have no such move.
DescentTerminates ==
    /\ [](Strict => <>(pc = "done"))
    /\ [][Strict /\ work' # work => LsObjective(work') < LsObjective(work)]_vars
    /\ [](Strict => ~Revisited)
    /\ [](Strict /\ pc = "done" =>
            \A k \in 1..Len(rets) : \A mv \in Range(LocalMoves(rets[k].sol)) :
                ObjectiveIncrLocal(rets[k].sol, mv) >= 0)
    /\ [](alg = "rls" /\ Revisited => ZeroStepTaken)
    /\ [](alg = "rls" /\ NoZeroIncrement => <>(pc = "done"))

\* first_improvement has applied a step and ended at a solution that has a
\* move of increment 0
DescentTerminatesWitness ==
    /\ alg = "first_improvement" /\ pc = "done" /\ budget = "never"
    /\ Len(visited) = 2
    /\ \E mv \in Range(LocalMoves(work)) : ObjectiveIncrLocal(work, mv) = 0

\* rls ends under a budget that never expires
RlsTerminates == [](alg = "rls" => <>(pc = "done"))

\* rls is back at a solution it has left
RlsRevisits == alg = "rls" /\ budget = "never" /\ Revisited

====
